---- MODULE Spec2Model ----
(***************************************************************************)
(* Fault / pre-fault management core of the SafetyFunctions app:           *)
(* FaultManager (shared/fault_manager.py), the debounce engine and         *)
(* process_prefault (shared/safety_component.py), the recovery callback    *)
(* (shared/recovery_manager.py) and the notification registry              *)
(* (shared/notification_manager.py).                                       *)
(***************************************************************************)
EXTENDS Integers, FiniteSets, Sequences, TLC

\* ------------------------------------------------------------------------
\* Enumerations (shared/types_common.py, shared/safety_component.py)
\* ------------------------------------------------------------------------
NOT_TESTED == "NOT_TESTED"
SET == "SET"
CLEARED == "CLEARED"
FaultState == {NOT_TESTED, SET, CLEARED}

SM_ERROR == "ERROR"
SM_NON_INITIALIZED == "NON_INITIALIZED"
SM_DISABLED == "DISABLED"
SM_ENABLED == "ENABLED"
SMState == {SM_ERROR, SM_NON_INITIALIZED, SM_DISABLED, SM_ENABLED}

NO_ACTION == "NO_ACTION"
PREFAULT_SET == "PREFAULT_SET"
PREFAULT_HEALED == "PREFAULT_HEALED"
DebounceAction == {NO_ACTION, PREFAULT_SET, PREFAULT_HEALED}

None == "None"

\* ------------------------------------------------------------------------
\* Registries and bounds
\* ------------------------------------------------------------------------
PreFaults == {"P1", "P2"}
SmNames == {"sm_a", "sm_b"}
Faults == {"F1", "F2"}

\* largest debounce limit of a mechanism
MaxLimit == 2
\* largest debounce limit fed to the debounce engine alone
MaxDLimit == 4
\* counters fed to the debounce engine alone range over -MaxCounter..MaxCounter
MaxCounter == 5
\* longest chain of calls of the debounce engine
MaxCalls == MaxDLimit + 1
\* the observer counts runs of equal samples up to this length
MaxRun == 2 * MaxLimit
\* initial debounce counter of a mechanism
DEBOUNCE_INIT == 1

\* Fault(name, related_sms, priority): priorities of the reference fixture
notification_level == [f \in Faults |-> IF f = "F1" THEN 2 ELSE 3]

\* RecoveryAction.name is the default name "ManipulateWindow" followed by the
\* location: the two mechanisms of one location share it
action_name == [p \in PreFaults |-> "ManipulateWindow"]

\* what a recovery function can hand back: None, an empty change map, or a
\* non-empty change map
RecFunResults == {"None", "empty", "changes"}
\* environment of one recovery call: the recovery function's result and, for
\* a non-empty change map, the mechanisms whose test evaluates true when the
\* proposed changes replace the live sensor reads, and whether the function
\* also handed back manual-action notifications
RecEnv ==
    [rec_fun : {"None", "empty"}, triggered : {{}}, notes : {FALSE}]
        \cup [rec_fun : {"changes"}, triggered : SUBSET PreFaults, notes : BOOLEAN]

\* a sensor value as the mechanism's test sees it: below the threshold, at
\* or above it, or not parseable as a number
Readings == {"below", "above", "unreadable"}
Readable == {"below", "above"}
\* the mechanisms whose sensor reports values; the other sensor is unavailable
Sensors == {"P1"}
\* sm_result = temperature < cold_threshold
TestOf(reading) == reading = "below"

VARIABLES
    recovery_actions,     \* RecoveryManager.recovery_actions keys
    sm_name,              \* PreFault.sm_name (configuration)
    related_prefaults,    \* Fault.related_prefaults (configuration)
    pf_state,             \* PreFault.state
    fault_state,          \* Fault.state
    sm_state,             \* PreFault.sm_state
    notify_interface,     \* FaultManager.notify_interface is registered
    recovery_interface,   \* FaultManager.recovery_interface is registered
    fault_entity,         \* host entity sensor.fault_<name>
    active_notification,  \* NotificationManager.active_notification keys
    safety_mechanisms,    \* component.safety_mechanisms keys
    debounce,             \* DebounceState.debounce per mechanism
    force_sm,             \* DebounceState.force_sm per mechanism
    pending,              \* a re-poll of the mechanism is scheduled
    fault_man,            \* SafetyComponent.fault_man is registered
    debounce_limit,       \* limit handed to process_prefault
    sample,               \* current sensor reading per mechanism
    frozen,               \* the environment stopped changing entities
    observe,              \* which history is recorded: "ops", "life", "runs" or "off"
    last_op,              \* the operation performed by the last step
    repeated,             \* the last step repeated the operation before it
    raised,               \* the last operation ended with an exception
    log,                  \* messages logged by the last operation
    ret,                  \* return value of the last operation
    cb_trace,             \* calls made by the last operation, in order
    rec_commit,           \* the last operation committed recovery changes
    sm_calls,             \* calls of each mechanism function by the last operation
    run_test,             \* observer: test value of the current run on P1
    run_len,              \* observer: length of the current run on P1
    after_set_run,        \* observer: the run follows a fresh run that reached the limit
    fresh,                \* observer: every invocation so far was in this run
    d_limit,              \* debounce harness: limit
    d_in,                 \* debounce harness: counter given to the last call
    d_test,               \* debounce harness: test given to the last call
    d_out,                \* debounce harness: result of the last call
    d_calls,              \* debounce harness: calls made from the zero counter
    d_chain,              \* debounce harness: calls so far form a constant run from 0
    n_call,               \* notification harness: the last notify call and its service calls
    n_last,               \* notification harness: status of the last level 1-3 notify per tag
    n_message,            \* recovery messages appended to the stored notification of each tag
    fault_attrs,          \* attributes of the host entity sensor.fault_<name>
    a_call,               \* the last set_prefault or clear_prefault that carried additional_info
    a_info,               \* additional_info each PreFault was last set with
    pp_call,              \* the last direct process_prefault call and what it gave
    pp_last,              \* the last FaultManager call process_prefault made per PreFault
    pp_lastcb,            \* status of the last notify caused by those calls per PreFault
    pp_run,               \* contrary samples in a row since the PreFault last agreed or flipped
    pp_cost,              \* debounce steps since the counter was at rest, -1 when unknown
    c_call                \* the last direct _perform_recovery call and what it did

cfg_vars == <<sm_name, related_prefaults, recovery_actions>>
fm_vars == <<pf_state, fault_state, fault_entity, active_notification>>
cb_vars == <<notify_interface, recovery_interface>>
sm_vars == <<sm_state, safety_mechanisms, debounce, force_sm, pending, fault_man,
            debounce_limit, sample, frozen>>
op_vars == <<last_op, repeated, raised, log, ret, cb_trace, rec_commit, sm_calls>>
obs_vars == <<run_test, run_len, after_set_run, fresh>>
d_vars == <<d_limit, d_in, d_test, d_out, d_calls, d_chain>>
n_vars == <<n_call, n_last, n_message>>
a_vars == <<fault_attrs, a_call, a_info>>
p_vars == <<pp_call, pp_last, pp_lastcb, pp_run, pp_cost>>
c_vars == <<c_call>>
h_vars == <<d_vars, n_vars, a_vars, p_vars, c_vars>>
vars == <<cfg_vars, fm_vars, cb_vars, sm_vars, op_vars, obs_vars, h_vars, observe>>

\* ------------------------------------------------------------------------
\* FaultManager
\* ------------------------------------------------------------------------

\* The registries a FaultManager operation reads and writes, as one record.
FM == [pf |-> pf_state, fault |-> fault_state, entity |-> fault_entity,
       active |-> active_notification, smst |-> sm_state]

\* found_mapped_fault answering with the first match when several Faults list sm_id
FoundFirstMatch(sm_id) ==
    LET matching_objects == {f \in Faults : sm_id \in related_prefaults[f]}
    IN  IF Cardinality(matching_objects) >= 1
        THEN [ret |-> CHOOSE f \in matching_objects : TRUE, log |-> {}]
        ELSE [ret |-> None, log |-> {"No faults associated"}]

\* found_mapped_fault(prefault_id, sm_id): exactly one Fault must list sm_id
found_mapped_fault(sm_id) ==
    LET matching_objects == {f \in Faults : sm_id \in related_prefaults[f]}
    IN  IF Cardinality(matching_objects) = 1
        THEN [ret |-> CHOOSE f \in matching_objects : TRUE, log |-> {}]
        ELSE IF Cardinality(matching_objects) > 1
        THEN [ret |-> None, log |-> {"Multiple faults found"}]
        ELSE [ret |-> None, log |-> {"No faults associated"}]

\* largest notification level handed to notify; levels above 4 have no
\* configuration
MaxLevel == 5
NotifyLevels == 1..MaxLevel

\* notify leaving the tag registered when the Fault is cleared
NotifyKeepsTag(active, fault, level, fault_status) ==
    IF level \notin {1, 2, 3} THEN active
    ELSE IF fault_status = SET THEN active \cup {fault}
    ELSE active

\* notify registering the tag at every level
NotifyAnyLevel(active, fault, level, fault_status) ==
    IF fault_status = SET THEN active \cup {fault}
    ELSE IF fault_status = CLEARED THEN active \ {fault}
    ELSE active

\* NotificationManager.notify / _notify_company_app / _handle_notify_reg:
\* the active registry after a notification of level 1..3 (4 is silent)
notify(active, fault, level, fault_status) ==
    IF level \notin {1, 2, 3} THEN active
    ELSE IF fault_status = SET THEN active \cup {fault}
    ELSE IF fault_status = CLEARED THEN active \ {fault}
    ELSE active

\* NotificationManager.level_methods: the service calls of a level's
\* additional actions
level_methods(level) ==
    CASE level = 1 -> <<"alarm_control_panel/alarm_trigger", "light/turn_on">>
      [] level = 2 -> <<"light/turn_on">>
      [] OTHER -> <<>>

\* NotificationManager._notify_company_app: the service calls it makes
_notify_company_app(level) ==
    IF level = 4 THEN <<>>
    ELSE IF level \in {1, 2, 3} THEN <<"notify/notify">>
    ELSE <<>>

\* the service calls of one notify(fault, level, fault_status, info), in order
NotifyServices(level, fault_status) ==
    CASE fault_status = SET -> _notify_company_app(level) \o level_methods(level)
      [] fault_status = CLEARED -> _notify_company_app(level)
      [] OTHER -> <<>>

\* recovery messages kept per notification in the model, and their texts
MaxMessages == 2
RecoveryMessages == {"open window", "close window"}

\* _add_recovery_action resending every active notification
AddRecoveryActionToAll(active, message, notification_msg, fault_name) ==
    [message |-> [f \in Faults |-> IF f \in active
                                   THEN Append(message[f], notification_msg)
                                   ELSE message[f]],
     services |-> IF fault_name \in active /\ Cardinality(active) > 1
                  THEN <<"notify/notify", "notify/notify">>
                  ELSE IF active # {} THEN <<"notify/notify">> ELSE <<>>]

\* NotificationManager._add_recovery_action / _add_rec_msg: the messages
\* appended to the stored notifications afterwards, and the service calls
_add_recovery_action(active, message, notification_msg, fault_name) ==
    IF fault_name \in active
    THEN [message |-> [message EXCEPT ![fault_name] = Append(@, notification_msg)],
          services |-> <<"notify/notify">>]
    ELSE [message |-> message, services |-> <<>>]

\* RecoveryManager._get_matching_actions: names whose action name occurs in
\* the action name registered for the PreFault
_get_matching_actions(p) ==
    {q \in recovery_actions : action_name[q] = action_name[p]}

\* RecoveryManager._check_conflict_with_matching_actions: for every matching
\* name the Fault looked up is the one of the recovering PreFault itself
_check_conflict_with_matching_actions(matching_actions, rec_fault_prio, p) ==
    \E found_prefault_name \in matching_actions :
        LET found_fault == found_mapped_fault(sm_name[p]).ret
        IN  found_fault # None /\ notification_level[found_fault] > rec_fault_prio

\* RecoveryManager._isRecoveryConflict: the priority comparison is made only
\* when the list of matching actions is empty
_isRecoveryConflict(p) ==
    LET matching_actions == _get_matching_actions(p)
        rec_fault == found_mapped_fault(sm_name[p]).ret
    IN  IF matching_actions = {} /\ rec_fault # None
        THEN _check_conflict_with_matching_actions(
                 matching_actions, notification_level[rec_fault], p)
        ELSE FALSE

\* the enabled mechanisms whose test function answers true when it is called
\* with the proposed changes (the calls made by _run_dry_test)
DryTriggered(fm, env) ==
    {q \in PreFaults : fm.smst[q] = SM_ENABLED /\ q \in env.triggered}

\* _run_dry_test finding a fault only in the recovering PreFault's own test
RunDryTestOwnOnly(fm, p, env) ==
    p \in DryTriggered(fm, env)

\* RecoveryManager._run_dry_test(prefaul_name, entities_changes): the sm_name
\* of a triggered mechanism is compared with the name of the PreFault
_run_dry_test(fm, p, env) ==
    \E q \in DryTriggered(fm, env) : sm_name[q] # p

\* what the dry test was given: a triggered mechanism other than the
\* recovering one, only the recovering one, or none
DrySeen(fm, p, env) ==
    IF DryTriggered(fm, env) \ {p} # {} THEN "other"
    ELSE IF DryTriggered(fm, env) # {} THEN "self"
    ELSE "none"

\* RecoveryManager._perform_recovery: the steps taken, in order
_perform_recovery(fm, p, env) ==
    LET fault == found_mapped_fault(sm_name[p]).ret
    IN  (IF env.notes /\ fault # None
         THEN <<(<<"add_recovery_action", p, fault>>)>> ELSE <<>>)
        \o (IF p \in recovery_actions
            THEN <<(<<"set_rec_entity", p, "status">>),
                   (<<"set_state", p, "changes">>)>>
            ELSE <<>>)

\* recovery performing the changes whatever the dry test answered
RecoveryIgnoresDryTest(fm, p, env) ==
    IF p \in recovery_actions
    THEN LET called == <<(<<"rec_fun", p, env.rec_fun>>)>>
         IN  IF env.rec_fun = "None"
             THEN [raised |-> TRUE, commit |-> FALSE, log |-> {}, steps |-> called]
             ELSE IF env.rec_fun = "changes"
             THEN [raised |-> FALSE, commit |-> TRUE, log |-> {},
                   steps |-> called
                       \o <<(<<"dry_test", p, DrySeen(fm, p, env)>>),
                            (<<"dry_verdict", p,
                               IF _run_dry_test(fm, p, env) THEN "fault" ELSE "clear">>),
                            (<<"conflict_check", p, "free">>)>>
                       \o _perform_recovery(fm, p, env)]
             ELSE [raised |-> FALSE, commit |-> FALSE, log |-> {}, steps |-> called]
    ELSE [raised |-> FALSE, commit |-> FALSE, log |-> {"No recovery actions"},
          steps |-> <<>>]

\* recovery asking the recovery function before looking for a RecoveryAction
RecoveryCallsUnregistered(fm, p, env) ==
    [raised |-> env.rec_fun = "None", commit |-> FALSE,
     log |-> IF p \in recovery_actions THEN {} ELSE {"No recovery actions"},
     steps |-> <<(<<"rec_fun", p, env.rec_fun>>)>>]

\* RecoveryManager.recovery(prefault): outcome and the steps taken, in order
recovery(fm, p, env) ==
    IF p \in recovery_actions
    THEN LET called == <<(<<"rec_fun", p, env.rec_fun>>)>>
         IN  IF env.rec_fun = "None"
             \* "entities_changes, notifications = None" does not unpack
             THEN [raised |-> TRUE, commit |-> FALSE, log |-> {}, steps |-> called]
             ELSE IF env.rec_fun = "changes"
             THEN LET seen == <<(<<"dry_test", p, DrySeen(fm, p, env)>>)>>
                  IN  IF ~_run_dry_test(fm, p, env)
                      THEN LET passed == called \o seen
                                   \o <<(<<"dry_verdict", p, "clear">>)>>
                           IN  IF ~_isRecoveryConflict(p)
                               THEN [raised |-> FALSE, commit |-> TRUE, log |-> {},
                                     steps |-> passed
                                         \o <<(<<"conflict_check", p, "free">>)>>
                                         \o _perform_recovery(fm, p, env)]
                               ELSE [raised |-> FALSE, commit |-> FALSE,
                                     log |-> {"Recovery confict"},
                                     steps |-> passed
                                         \o <<(<<"conflict_check", p, "conflict">>)>>]
                      ELSE [raised |-> FALSE, commit |-> FALSE,
                            log |-> {"Recovery will raise another fault."},
                            steps |-> called \o seen
                                \o <<(<<"dry_verdict", p, "fault">>)>>]
             ELSE [raised |-> FALSE, commit |-> FALSE, log |-> {}, steps |-> called]
    ELSE [raised |-> FALSE, commit |-> FALSE, log |-> {"No recovery actions"},
          steps |-> <<>>]

\* the callbacks called the other way round: recovery first, then notify
CallbacksRecoveryFirst(fm, p, fault, fault_status, env) ==
    LET rec == IF recovery_interface
               THEN recovery(fm, p, env)
               ELSE [raised |-> FALSE, commit |-> FALSE,
                     log |-> {"No recovery interface"}, steps |-> <<>>]
        notified == notify_interface /\ ~rec.raised
        active == IF notified
                  THEN notify(fm.active, fault, notification_level[fault], fault_status)
                  ELSE fm.active
    IN  [fm |-> [fm EXCEPT !.active = active],
         log |-> (IF notify_interface THEN {} ELSE {"No notification interface"})
                 \cup rec.log,
         raised |-> rec.raised,
         commit |-> rec.commit,
         cb |-> (IF recovery_interface THEN <<(<<"recovery", p>>)>> ELSE <<>>)
                \o rec.steps
                \o (IF notified THEN <<(<<"notify", fault, fault_status>>)>> ELSE <<>>)]

\* the dry run handing every triggered mechanism's result to process_prefault,
\* as an invocation without proposed changes does
DryRunProcesses(fm, env) ==
    [fm EXCEPT !.pf = [q \in PreFaults |->
                          IF q \in DryTriggered(fm, env) THEN SET ELSE @[q]]]

\* the registries after _run_dry_test called the enabled mechanisms with the
\* proposed changes: a mechanism given entities_changes answers with its test
\* result and does not process it
DryRunState(fm, env) == fm

\* recovery(prefault) gets as far as _run_dry_test: a RecoveryAction is
\* registered and its recovery function handed back changes
DryRan(p, env) ==
    recovery_interface /\ p \in recovery_actions /\ env.rec_fun = "changes"

\* the two callback calls that end _set_fault and _clear_fault
Callbacks(fm, p, fault, fault_status, env) ==
    LET active == IF notify_interface
                  THEN notify(fm.active, fault, notification_level[fault], fault_status)
                  ELSE fm.active
        rec == IF recovery_interface
               THEN recovery([fm EXCEPT !.active = active], p, env)
               ELSE [raised |-> FALSE, commit |-> FALSE,
                     log |-> {"No recovery interface"}, steps |-> <<>>]
    IN  [fm |-> IF DryRan(p, env)
                THEN DryRunState([fm EXCEPT !.active = active], env)
                ELSE [fm EXCEPT !.active = active],
         log |-> (IF notify_interface THEN {} ELSE {"No notification interface"})
                 \cup rec.log,
         raised |-> rec.raised,
         commit |-> rec.commit,
         cb |-> (IF notify_interface THEN <<(<<"notify", fault, fault_status>>)>> ELSE <<>>)
                \o (IF recovery_interface THEN <<(<<"recovery", p>>)>> ELSE <<>>)
                \o rec.steps]

\* _set_fault giving up before the Fault is written when no notify callback
\* is registered
SetFaultNeedsNotify(fm, p, env) ==
    LET found == found_mapped_fault(sm_name[p])
        fault == found.ret
    IN  IF fault # None /\ notify_interface
        THEN LET fm1 == [fm EXCEPT !.fault[fault] = SET, !.entity[fault] = "Set"]
                 cbs == Callbacks(fm1, p, fault, SET, env)
             IN  [cbs EXCEPT !.log = found.log \cup cbs.log]
        ELSE [fm |-> fm, log |-> found.log \cup {"No notification interface"},
              raised |-> FALSE, commit |-> FALSE, cb |-> <<>>]

\* _set_fault taking the first Fault that lists the sm_name when several do
SetFaultOnAnyMatch(fm, p, env) ==
    LET matching_objects == {f \in Faults : sm_name[p] \in related_prefaults[f]}
    IN  IF matching_objects # {}
        THEN LET fault == CHOOSE f \in matching_objects : TRUE
                 fm1 == [fm EXCEPT !.fault[fault] = SET, !.entity[fault] = "Set"]
             IN  Callbacks(fm1, p, fault, SET, env)
        ELSE [fm |-> fm, log |-> {}, raised |-> FALSE, commit |-> FALSE, cb |-> <<>>]

\* _set_fault(prefault_id, additional_info), on registries fm
_set_fault(fm, p, env) ==
    LET found == found_mapped_fault(sm_name[p])
        fault == found.ret
    IN  IF fault # None
        THEN LET fm1 == [fm EXCEPT !.fault[fault] = SET, !.entity[fault] = "Set"]
                 cbs == Callbacks(fm1, p, fault, SET, env)
             IN  [cbs EXCEPT !.log = found.log \cup cbs.log]
        ELSE [fm |-> fm, log |-> found.log, raised |-> FALSE,
              commit |-> FALSE, cb |-> <<>>]

\* _clear_fault clearing the Fault without looking at the other PreFaults
ClearFaultAlone(fm, p, env) ==
    LET found == found_mapped_fault(sm_name[p])
        fault == found.ret
    IN  IF fault # None
        THEN LET fm1 == [fm EXCEPT !.fault[fault] = CLEARED,
                                   !.entity[fault] = "Cleared"]
                 cbs == Callbacks(fm1, p, fault, CLEARED, env)
             IN  [cbs EXCEPT !.log = found.log \cup cbs.log]
        ELSE [fm |-> fm, log |-> found.log, raised |-> FALSE,
              commit |-> FALSE, cb |-> <<>>]

\* _clear_fault clearing the Fault object without writing the host entity
ClearFaultKeepsEntity(fm, p, env) ==
    LET found == found_mapped_fault(sm_name[p])
        fault == found.ret
    IN  IF fault # None
           /\ ~(\E q \in PreFaults : sm_name[q] = sm_name[p] /\ fm.pf[q] = SET)
        THEN LET fm1 == [fm EXCEPT !.fault[fault] = CLEARED]
                 cbs == Callbacks(fm1, p, fault, CLEARED, env)
             IN  [cbs EXCEPT !.log = found.log \cup cbs.log]
        ELSE [fm |-> fm, log |-> found.log, raised |-> FALSE,
              commit |-> FALSE, cb |-> <<>>]

\* _clear_fault(prefault_id, additional_info), on registries fm
_clear_fault(fm, p, env) ==
    LET found == found_mapped_fault(sm_name[p])
        fault == found.ret
    IN  IF fault # None
           /\ ~(\E q \in PreFaults : sm_name[q] = sm_name[p] /\ fm.pf[q] = SET)
        THEN LET fm1 == [fm EXCEPT !.fault[fault] = CLEARED,
                                   !.entity[fault] = "Cleared"]
                 cbs == Callbacks(fm1, p, fault, CLEARED, env)
             IN  [cbs EXCEPT !.log = found.log \cup cbs.log]
        ELSE [fm |-> fm, log |-> found.log, raised |-> FALSE,
              commit |-> FALSE, cb |-> <<>>]

\* set_prefault(prefault_id, additional_info), on registries fm
SetPrefault(fm, p, env) ==
    _set_fault([fm EXCEPT !.pf[p] = SET], p, env)

\* clear_prefault putting the PreFault back to NOT_TESTED
ClearPrefaultForgets(fm, p, env) ==
    _clear_fault([fm EXCEPT !.pf[p] = NOT_TESTED], p, env)

\* clear_prefault(prefault_id, additional_info), on registries fm
ClearPrefault(fm, p, env) ==
    _clear_fault([fm EXCEPT !.pf[p] = CLEARED], p, env)

\* an operation outcome that leaves the registries fm alone
NoEffect(fm, msgs) ==
    [fm |-> fm, log |-> msgs, raised |-> FALSE, commit |-> FALSE, cb |-> <<>>]

\* ------------------------------------------------------------------------
\* Debounce engine and process_prefault (shared/safety_component.py)
\* ------------------------------------------------------------------------
\* ------------------------------------------------------------------------
\* The attributes of the Fault entities.  An attribute value is the text the
\* host stores; it is kept here as the sequence of its parts between ", ",
\* which is what split(", ") gives and what ", ".join gives back for parts
\* that hold no ", " themselves.  <<>> stands for a key that is absent.
\* ------------------------------------------------------------------------
InfoKeys == {"location", "detail"}
AttrKeys == InfoKeys \cup {"friendly_name"}
InfoValues == {"Office", "Kitchen"}
NoInfo == <<>>
\* the additional_info dictionaries handed to set_prefault and clear_prefault:
\* one value under one or more keys
Infos == UNION {[K -> InfoValues] : K \in (SUBSET InfoKeys) \ {{}}}

\* register_entities: attributes={"friendly_name": name, "location": "None"}
RegisteredAttributes ==
    [k \in AttrKeys |-> CASE k = "friendly_name" -> <<"name">>
                          [] k = "location" -> <<"None">>
                          [] OTHER -> <<>>]

Parts(value) == {value[i] : i \in 1..Len(value)}

\* _determinate_info appending the new value whether or not it is listed
DeterminateInfoAppends(current_attributes, additional_info, state) ==
    [key \in AttrKeys |->
        IF key \notin DOMAIN additional_info THEN current_attributes[key]
        ELSE IF current_attributes[key] \notin {<<>>, <<"None">>}
        THEN Append(current_attributes[key], additional_info[key])
        ELSE <<additional_info[key]>>]

\* _determinate_info(entity_id, additional_info, fault_state) for a
\* registered entity with attributes current_attributes and a non-empty
\* additional_info
_determinate_info(current_attributes, additional_info, state) ==
    IF state = SET
    THEN [key \in AttrKeys |->
            IF key \notin DOMAIN additional_info THEN current_attributes[key]
            ELSE IF current_attributes[key] \notin {<<>>, <<"None">>}
            THEN IF additional_info[key] \notin Parts(current_attributes[key])
                 THEN Append(current_attributes[key], additional_info[key])
                 ELSE current_attributes[key]
            ELSE <<additional_info[key]>>]
    ELSE IF state = CLEARED
    THEN [key \in AttrKeys |->
            IF key \notin DOMAIN additional_info \/ current_attributes[key] = <<>>
            THEN current_attributes[key]
            ELSE IF Len(current_attributes[key]) > 1
            THEN SelectSeq(current_attributes[key],
                           LAMBDA val : val # additional_info[key])
            ELSE <<>>]
    ELSE [key \in AttrKeys |->
            IF key \in DOMAIN additional_info THEN <<additional_info[key]>>
            ELSE <<>>]

\* _set_fault: the attributes it writes to the entity of the mapped Fault
SetFaultAttrs(attrs, p, additional_info) ==
    LET fault == found_mapped_fault(sm_name[p]).ret
    IN  IF fault # None
        THEN [attrs EXCEPT ![fault] = _determinate_info(@, additional_info, SET)]
        ELSE attrs

\* _clear_fault: the attributes it writes to the entity of the mapped Fault,
\* pf being the PreFault states after clear_prefault wrote CLEARED
ClearFaultAttrs(pf, attrs, p, additional_info) ==
    LET fault == found_mapped_fault(sm_name[p]).ret
    IN  IF fault # None
           /\ ~(\E q \in PreFaults : sm_name[q] = sm_name[p] /\ pf[q] = SET)
        THEN [attrs EXCEPT ![fault] = _determinate_info(@, additional_info, SET)]
        ELSE attrs

Min(a, b) == IF a < b THEN a ELSE b
Max(a, b) == IF a > b THEN a ELSE b

\* _debounce comparing strictly: the limit itself never triggers an action
DebounceStrict(current_counter, pr_test, limit) ==
    IF pr_test
    THEN LET new_counter == Min(limit, current_counter + 1)
         IN  [action |-> IF new_counter > limit THEN PREFAULT_SET ELSE NO_ACTION,
              counter |-> new_counter]
    ELSE LET new_counter == Max(-limit, current_counter - 1)
         IN  [action |-> IF new_counter < -limit THEN PREFAULT_HEALED ELSE NO_ACTION,
              counter |-> new_counter]

\* _debounce without saturation of the counter at the limit
DebounceNoClamp(current_counter, pr_test, limit) ==
    IF pr_test
    THEN LET new_counter == current_counter + 1
         IN  [action |-> IF new_counter >= limit THEN PREFAULT_SET ELSE NO_ACTION,
              counter |-> new_counter]
    ELSE LET new_counter == current_counter - 1
         IN  [action |-> IF new_counter <= -limit THEN PREFAULT_HEALED ELSE NO_ACTION,
              counter |-> new_counter]

\* _debounce with the healing threshold one step beyond the saturation point
DebounceNeverHeals(current_counter, pr_test, limit) ==
    IF pr_test
    THEN LET new_counter == Min(limit, current_counter + 1)
         IN  [action |-> IF new_counter >= limit THEN PREFAULT_SET ELSE NO_ACTION,
              counter |-> new_counter]
    ELSE LET new_counter == Max(-limit, current_counter - 1)
         IN  [action |-> IF new_counter <= -limit - 1 THEN PREFAULT_HEALED
                         ELSE NO_ACTION,
              counter |-> new_counter]

\* _debounce(current_counter, pr_test, debounce_limit)
_debounce(current_counter, pr_test, limit) ==
    IF pr_test
    THEN LET new_counter == Min(limit, current_counter + 1)
         IN  [action |-> IF new_counter >= limit THEN PREFAULT_SET ELSE NO_ACTION,
              counter |-> new_counter]
    ELSE LET new_counter == Max(-limit, current_counter - 1)
         IN  [action |-> IF new_counter <= -limit THEN PREFAULT_HEALED ELSE NO_ACTION,
              counter |-> new_counter]

\* process_prefault handing back the counter it was given after a debounce step
ProcessPrefaultKeepsCounter(fm, p, current_counter, pr_test, limit, env) ==
    IF ~fault_man
    THEN [counter |-> current_counter, force_sm |-> FALSE,
          r |-> NoEffect(fm, {"Fault manager not initialized!"})]
    ELSE LET prefault_cur_state == fm.pf[p]
         IN  IF \/ (pr_test /\ prefault_cur_state = CLEARED)
                \/ (~pr_test /\ prefault_cur_state = SET)
                \/ prefault_cur_state = NOT_TESTED
             THEN LET debounce_result == _debounce(current_counter, pr_test, limit)
                  IN  IF debounce_result.action = PREFAULT_SET
                      THEN [counter |-> current_counter, force_sm |-> FALSE,
                            r |-> SetPrefault(fm, p, env)]
                      ELSE IF debounce_result.action = PREFAULT_HEALED
                      THEN [counter |-> current_counter, force_sm |-> FALSE,
                            r |-> ClearPrefault(fm, p, env)]
                      ELSE [counter |-> current_counter, force_sm |-> TRUE,
                            r |-> NoEffect(fm, {})]
             ELSE [counter |-> current_counter, force_sm |-> FALSE,
                   r |-> NoEffect(fm, {})]

\* process_prefault handing back the counter 0 after a transition
ProcessPrefaultRecentres(fm, p, current_counter, pr_test, limit, env) ==
    IF ~fault_man
    THEN [counter |-> current_counter, force_sm |-> FALSE, fm_calls |-> <<>>,
          r |-> NoEffect(fm, {"Fault manager not initialized!"})]
    ELSE LET prefault_cur_state == fm.pf[p]
         IN  IF \/ (pr_test /\ prefault_cur_state = CLEARED)
                \/ (~pr_test /\ prefault_cur_state = SET)
                \/ prefault_cur_state = NOT_TESTED
             THEN LET debounce_result == _debounce(current_counter, pr_test, limit)
                  IN  IF debounce_result.action = PREFAULT_SET
                      THEN [counter |-> 0, force_sm |-> FALSE,
                            fm_calls |-> <<"set_prefault">>,
                            r |-> SetPrefault(fm, p, env)]
                      ELSE IF debounce_result.action = PREFAULT_HEALED
                      THEN [counter |-> 0, force_sm |-> FALSE,
                            fm_calls |-> <<"clear_prefault">>,
                            r |-> ClearPrefault(fm, p, env)]
                      ELSE [counter |-> debounce_result.counter, force_sm |-> TRUE,
                            fm_calls |-> <<>>,
                            r |-> NoEffect(fm, {})]
             ELSE [counter |-> current_counter, force_sm |-> FALSE, fm_calls |-> <<>>,
                   r |-> NoEffect(fm, {})]

\* process_prefault running the debounce step on every sample at or above
\* the threshold, whatever the PreFault state is
ProcessPrefaultRehealsCleared(fm, p, current_counter, pr_test, limit, env) ==
    IF ~fault_man
    THEN [counter |-> current_counter, force_sm |-> FALSE, fm_calls |-> <<>>,
          r |-> NoEffect(fm, {"Fault manager not initialized!"})]
    ELSE LET prefault_cur_state == fm.pf[p]
         IN  IF \/ ~pr_test
                \/ (pr_test /\ prefault_cur_state = CLEARED)
                \/ prefault_cur_state = NOT_TESTED
             THEN LET debounce_result == _debounce(current_counter, pr_test, limit)
                  IN  IF debounce_result.action = PREFAULT_SET
                      THEN [counter |-> debounce_result.counter, force_sm |-> FALSE,
                            fm_calls |-> <<"set_prefault">>,
                            r |-> SetPrefault(fm, p, env)]
                      ELSE IF debounce_result.action = PREFAULT_HEALED
                      THEN [counter |-> debounce_result.counter, force_sm |-> FALSE,
                            fm_calls |-> <<"clear_prefault">>,
                            r |-> ClearPrefault(fm, p, env)]
                      ELSE [counter |-> debounce_result.counter, force_sm |-> TRUE,
                            fm_calls |-> <<>>,
                            r |-> NoEffect(fm, {})]
             ELSE [counter |-> current_counter, force_sm |-> FALSE, fm_calls |-> <<>>,
                   r |-> NoEffect(fm, {})]

\* process_prefault running the debounce step on every sample below the
\* threshold, whatever the PreFault state is
ProcessPrefaultResetsSet(fm, p, current_counter, pr_test, limit, env) ==
    IF ~fault_man
    THEN [counter |-> current_counter, force_sm |-> FALSE, fm_calls |-> <<>>,
          r |-> NoEffect(fm, {"Fault manager not initialized!"})]
    ELSE LET prefault_cur_state == fm.pf[p]
         IN  IF \/ pr_test
                \/ (~pr_test /\ prefault_cur_state = SET)
                \/ prefault_cur_state = NOT_TESTED
             THEN LET debounce_result == _debounce(current_counter, pr_test, limit)
                  IN  IF debounce_result.action = PREFAULT_SET
                      THEN [counter |-> debounce_result.counter, force_sm |-> FALSE,
                            fm_calls |-> <<"set_prefault">>,
                            r |-> SetPrefault(fm, p, env)]
                      ELSE IF debounce_result.action = PREFAULT_HEALED
                      THEN [counter |-> debounce_result.counter, force_sm |-> FALSE,
                            fm_calls |-> <<"clear_prefault">>,
                            r |-> ClearPrefault(fm, p, env)]
                      ELSE [counter |-> debounce_result.counter, force_sm |-> TRUE,
                            fm_calls |-> <<>>,
                            r |-> NoEffect(fm, {})]
             ELSE [counter |-> current_counter, force_sm |-> FALSE, fm_calls |-> <<>>,
                   r |-> NoEffect(fm, {})]

\* process_prefault going on to the debounce without a fault manager
ProcessPrefaultUnregistered(fm, p, current_counter, pr_test, limit, env) ==
    LET prefault_cur_state == fm.pf[p]
    IN  IF \/ (pr_test /\ prefault_cur_state = CLEARED)
           \/ (~pr_test /\ prefault_cur_state = SET)
           \/ prefault_cur_state = NOT_TESTED
        THEN LET debounce_result == _debounce(current_counter, pr_test, limit)
             IN  IF debounce_result.action = PREFAULT_SET
                 THEN [counter |-> debounce_result.counter, force_sm |-> FALSE,
                       fm_calls |-> <<"set_prefault">>,
                       r |-> SetPrefault(fm, p, env)]
                 ELSE IF debounce_result.action = PREFAULT_HEALED
                 THEN [counter |-> debounce_result.counter, force_sm |-> FALSE,
                       fm_calls |-> <<"clear_prefault">>,
                       r |-> ClearPrefault(fm, p, env)]
                 ELSE [counter |-> debounce_result.counter, force_sm |-> TRUE,
                       fm_calls |-> <<>>,
                       r |-> NoEffect(fm, {})]
        ELSE [counter |-> current_counter, force_sm |-> FALSE, fm_calls |-> <<>>,
              r |-> NoEffect(fm, {})]

\* process_prefault(prefault_id, current_counter, pr_test, additional_info,
\* debounce_limit) on registries fm: the returned pair, the FaultManager
\* calls it made and the outcome r of those calls (when r.raised, nothing is
\* returned)
process_prefault(fm, p, current_counter, pr_test, limit, env) ==
    IF ~fault_man
    THEN [counter |-> current_counter, force_sm |-> FALSE, fm_calls |-> <<>>,
          r |-> NoEffect(fm, {"Fault manager not initialized!"})]
    ELSE LET prefault_cur_state == fm.pf[p]
         IN  IF \/ (pr_test /\ prefault_cur_state = CLEARED)
                \/ (~pr_test /\ prefault_cur_state = SET)
                \/ prefault_cur_state = NOT_TESTED
             THEN LET debounce_result == _debounce(current_counter, pr_test, limit)
                  IN  IF debounce_result.action = PREFAULT_SET
                      THEN [counter |-> debounce_result.counter, force_sm |-> FALSE,
                            fm_calls |-> <<"set_prefault">>,
                            r |-> SetPrefault(fm, p, env)]
                      ELSE IF debounce_result.action = PREFAULT_HEALED
                      THEN [counter |-> debounce_result.counter, force_sm |-> FALSE,
                            fm_calls |-> <<"clear_prefault">>,
                            r |-> ClearPrefault(fm, p, env)]
                      ELSE [counter |-> debounce_result.counter, force_sm |-> TRUE,
                            fm_calls |-> <<>>,
                            r |-> NoEffect(fm, {})]
             ELSE [counter |-> current_counter, force_sm |-> FALSE, fm_calls |-> <<>>,
                   r |-> NoEffect(fm, {})]

\* ------------------------------------------------------------------------
\* Safety mechanism wrapper: one invocation of a mechanism's test function
\* ------------------------------------------------------------------------

\* no mechanism function was called
NoCalls == [p \in PreFaults |-> 0]

\* everything an invocation can touch, as one record
World ==
    [fm |-> FM, smst |-> sm_state, sms |-> safety_mechanisms,
     debounce |-> debounce, force |-> force_sm,
     resched |-> [p \in PreFaults |-> FALSE], calls |-> NoCalls,
     raised |-> FALSE, log |-> {}, cb |-> <<>>, commit |-> FALSE]

\* the mechanism runs only when enabled, and only on a readable sensor value
Effective(smst, p) == smst[p] = SM_ENABLED /\ sample[p] \in Readable

\* an invocation that runs the test whatever the mechanism's sm_state is
SmInvokeUngated(w, p, reading, env) ==
    IF w.raised THEN w
    ELSE IF reading \notin Readable
    THEN [w EXCEPT !.calls[p] = @ + 1]
    ELSE LET pp == process_prefault([w.fm EXCEPT !.smst = w.smst], p, w.debounce[p],
                                    TestOf(reading), debounce_limit, env)
         IN  [w EXCEPT !.fm = pp.r.fm,
                       !.calls[p] = @ + 1,
                       !.raised = pp.r.raised,
                       !.log = @ \cup pp.r.log,
                       !.cb = @ \o pp.r.cb,
                       !.commit = @ \/ pp.r.commit,
                       !.debounce[p] = IF pp.r.raised THEN @ ELSE pp.counter,
                       !.force[p] = IF pp.r.raised THEN @ ELSE pp.force_sm,
                       !.resched[p] = ~pp.r.raised /\ pp.force_sm]

\* an invocation that takes the result False, which the test function hands
\* back for an unreadable sensor, as a sample at or above the threshold
SmInvokeCountsUnreadable(w, p, reading, env) ==
    IF w.raised THEN w
    ELSE IF w.smst[p] # SM_ENABLED
    THEN [w EXCEPT !.calls[p] = @ + 1]
    ELSE LET pp == process_prefault([w.fm EXCEPT !.smst = w.smst], p, w.debounce[p],
                                    TestOf(reading), debounce_limit, env)
         IN  [w EXCEPT !.fm = pp.r.fm,
                       !.calls[p] = @ + 1,
                       !.raised = pp.r.raised,
                       !.log = @ \cup pp.r.log,
                       !.cb = @ \o pp.r.cb,
                       !.commit = @ \/ pp.r.commit,
                       !.debounce[p] = IF pp.r.raised THEN @ ELSE pp.counter,
                       !.force[p] = IF pp.r.raised THEN @ ELSE pp.force_sm,
                       !.resched[p] = ~pp.r.raised /\ pp.force_sm]

\* an invocation that asks for a re-poll whenever the test ran
SmInvokeAlwaysResamples(w, p, reading, env) ==
    IF w.raised THEN w
    ELSE IF w.smst[p] # SM_ENABLED \/ reading \notin Readable
    THEN [w EXCEPT !.calls[p] = @ + 1]
    ELSE LET pp == process_prefault([w.fm EXCEPT !.smst = w.smst], p, w.debounce[p],
                                    TestOf(reading), debounce_limit, env)
         IN  [w EXCEPT !.fm = pp.r.fm,
                       !.calls[p] = @ + 1,
                       !.raised = pp.r.raised,
                       !.log = @ \cup pp.r.log,
                       !.cb = @ \o pp.r.cb,
                       !.commit = @ \/ pp.r.commit,
                       !.debounce[p] = IF pp.r.raised THEN @ ELSE pp.counter,
                       !.force[p] = IF pp.r.raised THEN @ ELSE pp.force_sm,
                       !.resched[p] = ~pp.r.raised]

\* invocation of mechanism p with reading: feeds the carried counter to
\* process_prefault and stores the returned debounce state; an exception
\* leaves the stored debounce state as it was
sm_invoke(w, p, reading, env) ==
    IF w.raised THEN w
    ELSE IF w.smst[p] # SM_ENABLED \/ reading \notin Readable
    THEN [w EXCEPT !.calls[p] = @ + 1]
    ELSE LET pp == process_prefault([w.fm EXCEPT !.smst = w.smst], p, w.debounce[p],
                                    TestOf(reading), debounce_limit, env)
         IN  [w EXCEPT !.fm = pp.r.fm,
                       !.calls[p] = @ + 1,
                       !.raised = pp.r.raised,
                       !.log = @ \cup pp.r.log,
                       !.cb = @ \o pp.r.cb,
                       !.commit = @ \/ pp.r.commit,
                       !.debounce[p] = IF pp.r.raised THEN @ ELSE pp.counter,
                       !.force[p] = IF pp.r.raised THEN @ ELSE pp.force_sm,
                       !.resched[p] = ~pp.r.raised /\ pp.force_sm]

\* FaultManager.enable_all_prefaults, one PreFault of the loop: only a
\* DISABLED one is enabled, and then its mechanism is invoked once
EnableOne(w, p, env) ==
    IF w.raised \/ w.smst[p] # SM_DISABLED
    THEN w
    ELSE IF p \in safety_mechanisms
    THEN sm_invoke([w EXCEPT !.smst[p] = SM_ENABLED], p, sample[p], env)
    ELSE [w EXCEPT !.smst[p] = SM_ERROR]

\* history of the last operation, kept when operations are observed
Record(op, id, r_log, r_raised, r_cb, r_commit, r_ret, r_calls) ==
    IF observe \in {"ops", "life"}
    THEN /\ log' = r_log
         /\ raised' = r_raised
         /\ cb_trace' = r_cb
         /\ rec_commit' = r_commit
         /\ ret' = r_ret
         /\ sm_calls' = r_calls
         /\ last_op' = <<op, id>>
         /\ repeated' = (last_op = <<op, id>>)
    ELSE UNCHANGED op_vars

\* the recovery environments an operation is tried under: all of them when
\* the steps of the recovery are recorded; otherwise one per effect on the
\* registries, which a recovery has only by raising or not raising
RecEnvs ==
    IF observe = "ops" THEN RecEnv
    ELSE {env \in RecEnv : env.rec_fun \in {"None", "empty"}}

\* writes the outcome r of a FaultManager operation named op on id
Commit(r, op, id) ==
    /\ pf_state' = r.fm.pf
    /\ fault_state' = r.fm.fault
    /\ fault_entity' = r.fm.entity
    /\ active_notification' = r.fm.active
    /\ Record(op, id, r.log, r.raised, r.cb, r.commit, None, NoCalls)

\* ------------------------------------------------------------------------
\* Observer of the samples processed for one PreFault
\* ------------------------------------------------------------------------
Observed == "P1"

\* the observer stops following the PreFault
ObsStop ==
    /\ run_len' = 0
    /\ run_test' = FALSE
    /\ after_set_run' = FALSE
    /\ fresh' = FALSE

\* process_prefault was called for the observed PreFault with test t: the
\* observer follows the first run of equal samples after initialisation and,
\* when that run was below the threshold and reached the limit, the run of
\* samples at or above the threshold that follows it
ObsSample(t) ==
    IF observe # "runs" THEN UNCHANGED obs_vars
    ELSE IF fresh /\ (run_len = 0 \/ run_test = t)
    THEN /\ run_test' = t
         /\ run_len' = Min(run_len + 1, MaxRun)
         /\ UNCHANGED <<after_set_run, fresh>>
    ELSE IF fresh /\ run_test /\ run_len >= debounce_limit
    THEN /\ run_test' = FALSE
         /\ run_len' = 1
         /\ after_set_run' = TRUE
         /\ fresh' = FALSE
    ELSE IF after_set_run /\ ~t
    THEN /\ run_len' = Min(run_len + 1, MaxRun)
         /\ UNCHANGED <<run_test, after_set_run, fresh>>
    ELSE ObsStop

\* the observed PreFault was written without a sample
ObsReset ==
    IF observe # "runs" THEN UNCHANGED obs_vars ELSE ObsStop

\* ------------------------------------------------------------------------
\* Operations of the FaultManager interface
\* ------------------------------------------------------------------------
set_prefault(p) ==
    /\ ~frozen
    /\ \E env \in RecEnvs : Commit(SetPrefault(FM, p, env), "set_prefault", p)
    /\ IF p = Observed THEN ObsReset ELSE UNCHANGED obs_vars
    /\ UNCHANGED <<cfg_vars, cb_vars, sm_vars, h_vars, observe>>

clear_prefault(p) ==
    /\ ~frozen
    /\ \E env \in RecEnvs : Commit(ClearPrefault(FM, p, env), "clear_prefault", p)
    /\ IF p = Observed THEN ObsReset ELSE UNCHANGED obs_vars
    /\ UNCHANGED <<cfg_vars, cb_vars, sm_vars, h_vars, observe>>

call_found_mapped_fault(p, sm_id) ==
    /\ ~frozen
    /\ Record("found_mapped_fault", sm_id, found_mapped_fault(sm_id).log, FALSE,
              <<>>, FALSE, found_mapped_fault(sm_id).ret, NoCalls)
    /\ UNCHANGED <<cfg_vars, fm_vars, cb_vars, sm_vars, obs_vars, h_vars, observe>>

register_callbacks(rec, notif) ==
    /\ ~frozen
    /\ recovery_interface' = rec
    /\ notify_interface' = notif
    /\ Record("register_callbacks", None, {}, FALSE, <<>>, FALSE, None, NoCalls)
    /\ UNCHANGED <<cfg_vars, fm_vars, sm_vars, obs_vars, h_vars, observe>>

\* ------------------------------------------------------------------------
\* Lifecycle and mechanism invocations
\* ------------------------------------------------------------------------

\* writes the outcome w of an operation named op on id
CommitWorld(w, op, id) ==
    /\ pf_state' = w.fm.pf
    /\ fault_state' = w.fm.fault
    /\ fault_entity' = w.fm.entity
    /\ active_notification' = w.fm.active
    /\ sm_state' = w.smst
    /\ debounce' = w.debounce
    /\ force_sm' = w.force
    /\ Record(op, id, w.log, w.raised, w.cb, w.commit, None, w.calls)

\* what the configuration of a PreFault can be: valid, naming a mechanism
\* the component does not have, or lacking a required parameter key
CfgKinds == {"valid", "unknown_sm", "missing_key"}

\* FaultManager.init_safety_mechanisms, one PreFault of the loop: the call of
\* TemperatureComponent.init_safety_mechanism / _init_sm and the sm_state
\* written from its result. A missing key is logged by _extract_params, which
\* hands back an empty dict; _create_safety_mechanism_instance then raises
\* KeyError, before the mechanism is stored
InitOne(w, p, kind) ==
    IF w.raised THEN w
    ELSE IF kind = "unknown_sm"
    THEN [w EXCEPT !.cb = @ \o <<(<<"init_safety_mechanism", p, kind>>)>>,
                   !.smst[p] = SM_ERROR, !.log = @ \cup {"Unknown safety mechanism"}]
    ELSE IF p \in w.sms
    THEN [w EXCEPT !.cb = @ \o <<(<<"init_safety_mechanism", p, kind>>)>>,
                   !.smst[p] = SM_ERROR, !.log = @ \cup {"Doubled - Invalid Cfg"}]
    ELSE IF kind = "missing_key"
    THEN [w EXCEPT !.cb = @ \o <<(<<"init_safety_mechanism", p, kind>>)>>,
                   !.raised = TRUE, !.log = @ \cup {"Key not found in sm_cfg"}]
    ELSE [w EXCEPT !.cb = @ \o <<(<<"init_safety_mechanism", p, kind>>)>>,
                   !.sms = @ \cup {p},
                   !.smst[p] = SM_DISABLED,
                   !.debounce[p] = DEBOUNCE_INIT,
                   !.force[p] = FALSE]

\* the order in which the prefaults dictionary is walked
PreFaultOrder == <<"P1", "P2">>

RECURSIVE InitFrom(_, _, _)
InitFrom(w, i, kinds) ==
    IF i > Len(PreFaultOrder) THEN w
    ELSE InitFrom(InitOne(w, PreFaultOrder[i], kinds[PreFaultOrder[i]]), i + 1, kinds)

\* FaultManager.init_safety_mechanisms: kinds[p] is what the component finds
\* in the configuration of PreFault p
init_safety_mechanisms(kinds) ==
    /\ ~frozen
    /\ LET w == InitFrom(World, 1, kinds)
       IN  /\ CommitWorld(w, "init_safety_mechanisms", None)
           /\ safety_mechanisms' = w.sms
    /\ UNCHANGED <<cfg_vars, cb_vars, pending, fault_man, debounce_limit,
                   sample, frozen, obs_vars, h_vars, observe>>

RECURSIVE EnableFrom(_, _, _)
EnableFrom(w, i, envs) ==
    IF i > Len(PreFaultOrder) THEN w
    ELSE EnableFrom(EnableOne(w, PreFaultOrder[i], envs[PreFaultOrder[i]]), i + 1, envs)

\* the recovery environment of a call that is not made
IdleEnv == [rec_fun |-> "empty", triggered |-> {}, notes |-> FALSE]

\* one recovery environment per PreFault whose mechanism the loop invokes
EnableEnvs ==
    {envs \in [PreFaults -> RecEnvs] :
        \A p \in PreFaults :
            ~(sm_state[p] = SM_DISABLED /\ sample[p] \in Readable)
                => envs[p] = IdleEnv}

\* FaultManager.enable_all_prefaults
enable_all_prefaults ==
    /\ ~frozen
    /\ \E envs \in EnableEnvs :
          LET w == EnableFrom(World, 1, envs)
          IN  /\ CommitWorld(w, "enable_all_prefaults", None)
              /\ pending' = [p \in PreFaults |-> pending[p] \/ w.resched[p]]
    /\ IF /\ sm_state[Observed] = SM_DISABLED
          /\ Observed \in safety_mechanisms
          /\ sample[Observed] \in Readable
       THEN ObsSample(TestOf(sample[Observed]))
       ELSE UNCHANGED obs_vars
    /\ UNCHANGED <<cfg_vars, cb_vars, safety_mechanisms, fault_man, debounce_limit,
                   sample, frozen, h_vars, observe>>

\* the host reports a change of the entity watched by mechanism p
EntityChange(p, reading) ==
    /\ ~frozen
    /\ sample' = [sample EXCEPT ![p] = reading]
    /\ \E env \in RecEnvs :
          LET w == sm_invoke(World, p, reading, env)
          IN  /\ CommitWorld(w, "entity_change", p)
              /\ pending' = [pending EXCEPT ![p] = @ \/ w.resched[p]]
    /\ IF p = Observed /\ sm_state[p] = SM_ENABLED /\ reading \in Readable
       THEN ObsSample(TestOf(reading))
       ELSE UNCHANGED obs_vars
    /\ UNCHANGED <<cfg_vars, cb_vars, safety_mechanisms, fault_man, debounce_limit,
                   frozen, h_vars, observe>>

\* the re-poll scheduled for mechanism p fires
Repoll(p) ==
    /\ pending[p]
    /\ \E env \in RecEnvs :
          LET w == sm_invoke(World, p, sample[p], env)
          IN  /\ CommitWorld(w, "repoll", p)
              /\ pending' = [pending EXCEPT ![p] = w.resched[p]]
    /\ IF p = Observed /\ Effective(sm_state, p)
       THEN ObsSample(TestOf(sample[p]))
       ELSE UNCHANGED obs_vars
    /\ UNCHANGED <<cfg_vars, cb_vars, safety_mechanisms, fault_man, debounce_limit,
                   sample, frozen, h_vars, observe>>

\* from now on no entity changes and nobody calls the FaultManager directly
Freeze ==
    /\ ~frozen
    /\ frozen' = TRUE
    /\ UNCHANGED <<cfg_vars, fm_vars, cb_vars, sm_state, safety_mechanisms, debounce,
                   force_sm, pending, fault_man, debounce_limit, sample, op_vars,
                   obs_vars, h_vars, observe>>

\* ------------------------------------------------------------------------
\* Initial states
\* ------------------------------------------------------------------------
InitCommon ==
    /\ pf_state = [p \in PreFaults |-> NOT_TESTED]
    /\ fault_state = [f \in Faults |-> NOT_TESTED]
    /\ fault_entity = [f \in Faults |-> "Not_tested"]
    /\ active_notification = {}
    /\ sm_state = [p \in PreFaults |-> SM_NON_INITIALIZED]
    /\ safety_mechanisms = {}
    /\ debounce = [p \in PreFaults |-> DEBOUNCE_INIT]
    /\ force_sm = [p \in PreFaults |-> FALSE]
    /\ pending = [p \in PreFaults |-> FALSE]
    /\ frozen = FALSE
    /\ last_op = <<"init", None>>
    /\ repeated = FALSE
    /\ raised = FALSE
    /\ log = {}
    /\ ret = None
    /\ cb_trace = <<>>
    /\ rec_commit = FALSE
    /\ sm_calls = NoCalls
    /\ run_test = FALSE
    /\ run_len = 0
    /\ after_set_run = FALSE
    /\ fresh = TRUE

\* no notify call has been made through the notification harness
InitNotifyIdle ==
    /\ n_call = [fault |-> None, level |-> 0, status |-> None, before |-> {},
                 services |-> <<>>, msg |-> None]
    /\ n_last = [f \in Faults |-> None]
    /\ n_message = [f \in Faults |-> <<>>]

\* the attributes register_entities gives every Fault entity; no operation
\* has carried additional_info
InitInfoIdle ==
    /\ fault_attrs = [f \in Faults |-> RegisteredAttributes]
    /\ a_call = [op |-> None, id |-> None, info |-> NoInfo]
    /\ a_info = [p \in PreFaults |-> NoInfo]

\* process_prefault has not been called directly
InitProcessIdle ==
    /\ pp_call = [id |-> None, test |-> FALSE, state |-> NOT_TESTED, counter_in |-> 0,
                  returned |-> FALSE, counter |-> 0, force_sm |-> FALSE,
                  fm_calls |-> <<>>, notified |-> None, prev_fm |-> None,
                  prev_cb |-> None, run |-> 0, cost |-> -1]
    /\ pp_last = [p \in PreFaults |-> None]
    /\ pp_cost = [p \in PreFaults |-> -1]
    /\ pp_lastcb = [p \in PreFaults |-> None]
    /\ pp_run = [p \in PreFaults |-> 0]

InitCommitIdle ==
    c_call = [id |-> None, notes |-> FALSE, changes |-> <<>>, failing |-> {},
              steps |-> <<>>, log |-> {}, raised |-> FALSE]

InitHarnessIdle ==
    /\ InitNotifyIdle
    /\ InitInfoIdle
    /\ InitProcessIdle
    /\ InitCommitIdle
    /\ d_limit = 1
    /\ d_in = 0
    /\ d_test = FALSE
    /\ d_out = [action |-> NO_ACTION, counter |-> 0]
    /\ d_calls = 0
    /\ d_chain = TRUE

\* FaultManager as constructed, under any configuration, no callbacks yet
Init ==
    /\ recovery_actions = PreFaults
    /\ sm_name \in [PreFaults -> SmNames]
    /\ related_prefaults \in [Faults -> SUBSET SmNames]
    /\ notify_interface = FALSE
    /\ recovery_interface = FALSE
    /\ fault_man = FALSE
    /\ debounce_limit = 1
    /\ sample = [p \in PreFaults |-> "unreadable"]
    /\ observe = "ops"
    /\ InitCommon
    /\ InitHarnessIdle

Next ==
    \/ \E p \in PreFaults : set_prefault(p)
    \/ \E p \in PreFaults : clear_prefault(p)
    \/ \E p \in PreFaults, s \in SmNames : call_found_mapped_fault(p, s)
    \/ \E rec \in BOOLEAN, notif \in BOOLEAN : register_callbacks(rec, notif)

Spec == Init /\ [][Next]_vars

\* The app after FaultManager, managers and callbacks are wired
\* (SafetyFunctions.initialize up to register_fm), reference fault table
ReferenceFaults == [f \in Faults |-> IF f = "F1" THEN {"sm_a"} ELSE {"sm_b"}]

InitWired ==
    /\ related_prefaults = ReferenceFaults
    /\ notify_interface = TRUE
    /\ recovery_interface = TRUE
    /\ fault_man = TRUE
    /\ debounce_limit \in 1..MaxLimit
    /\ sample \in [PreFaults -> Readings]
    /\ \A p \in PreFaults \ Sensors : sample[p] = "unreadable"
    /\ InitCommon
    /\ InitHarnessIdle

InitSM ==
    /\ recovery_actions = PreFaults
    /\ sm_name \in [PreFaults -> SmNames]
    /\ observe = "runs"
    /\ InitWired

NextSM ==
    \/ \E p \in PreFaults : set_prefault(p)
    \/ \E p \in PreFaults : clear_prefault(p)
    \/ \E kinds \in [PreFaults -> CfgKinds] : init_safety_mechanisms(kinds)
    \/ enable_all_prefaults
    \/ \E p \in Sensors, reading \in Readings : EntityChange(p, reading)
    \/ \E p \in PreFaults : Repoll(p)

SpecSM == InitSM /\ [][NextSM]_vars

\* The wired app with both PreFaults on one sm_name, in an environment that
\* may stop changing entities; the host fires every scheduled re-poll
InitSMFair ==
    /\ recovery_actions = PreFaults
    /\ sm_name = [p \in PreFaults |-> "sm_a"]
    /\ observe = "off"
    /\ InitWired

NextSMFair == NextSM \/ Freeze

SpecSMFair ==
    InitSMFair /\ [][NextSMFair]_vars /\ \A p \in PreFaults : WF_vars(Repoll(p))

\* The wired app with one mechanism per Fault, under every choice of the
\* PreFaults that have a RecoveryAction, with the steps of each operation
\* recorded
ReferencePreFaults == [p \in PreFaults |-> IF p = "P1" THEN "sm_a" ELSE "sm_b"]

InitRec ==
    /\ recovery_actions \in SUBSET PreFaults
    /\ sm_name = ReferencePreFaults
    /\ observe = "ops"
    /\ InitWired
    /\ debounce_limit = 1

NextRec ==
    \/ \E p \in PreFaults : set_prefault(p)
    \/ \E p \in PreFaults : clear_prefault(p)
    \/ \E kinds \in [PreFaults -> {"valid", "unknown_sm"}] :
           init_safety_mechanisms(kinds)
    \/ enable_all_prefaults
    \/ \E p \in Sensors, reading \in Readings : EntityChange(p, reading)

SpecRec == InitRec /\ [][NextRec]_vars

\* The wired app from construction through initialisation, enabling and
\* operation, with the outcome of each operation recorded
InitLife ==
    /\ recovery_actions = PreFaults
    /\ sm_name = ReferencePreFaults
    /\ observe = "life"
    /\ InitWired
    /\ debounce_limit = MaxLimit

SpecLife == InitLife /\ [][NextSM]_vars

\* ------------------------------------------------------------------------
\* The NotificationManager on its own: notify called with any Fault, level
\* and status
\* ------------------------------------------------------------------------
NotifyCall(f, level, fault_status) ==
    /\ active_notification' = notify(active_notification, f, level, fault_status)
    /\ n_call' = [fault |-> f, level |-> level, status |-> fault_status,
                  before |-> active_notification,
                  services |-> NotifyServices(level, fault_status), msg |-> None]
    /\ n_message' = IF level \in {1, 2, 3} /\ fault_status \in {SET, CLEARED}
                    THEN [n_message EXCEPT ![f] = <<>>]
                    ELSE n_message
    /\ n_last' = IF level \in {1, 2, 3} /\ fault_status \in {SET, CLEARED}
                 THEN [n_last EXCEPT ![f] = fault_status]
                 ELSE n_last
    /\ UNCHANGED <<cfg_vars, pf_state, fault_state, fault_entity, cb_vars, sm_vars,
                   op_vars, obs_vars, d_vars, a_vars, p_vars, c_vars, observe>>

\* a recovery asks for its message to be added to the notification of f
AddRecoveryActionCall(f, msg) ==
    /\ Len(n_message[f]) < MaxMessages
    /\ LET added == _add_recovery_action(active_notification, n_message, msg, f)
       IN  /\ n_message' = added.message
           /\ n_call' = [fault |-> f, level |-> 0, status |-> "add_recovery_action",
                         before |-> active_notification,
                         services |-> added.services, msg |-> msg]
    /\ UNCHANGED <<cfg_vars, fm_vars, cb_vars, sm_vars, op_vars, obs_vars, d_vars,
                   a_vars, p_vars, c_vars, n_last, observe>>

InitNotify ==
    /\ recovery_actions = PreFaults
    /\ sm_name = [p \in PreFaults |-> "sm_a"]
    /\ related_prefaults = ReferenceFaults
    /\ notify_interface = FALSE
    /\ recovery_interface = FALSE
    /\ fault_man = FALSE
    /\ debounce_limit = 1
    /\ sample = [p \in PreFaults |-> "unreadable"]
    /\ observe = "off"
    /\ InitCommon
    /\ InitHarnessIdle

NextNotify ==
    \/ \E f \in Faults, level \in NotifyLevels, fault_status \in FaultState :
          NotifyCall(f, level, fault_status)
    \/ \E f \in Faults, msg \in RecoveryMessages : AddRecoveryActionCall(f, msg)

SpecNotify == InitNotify /\ [][NextNotify]_vars

\* ------------------------------------------------------------------------
\* The FaultManager called with additional_info: both PreFaults feed Fault
\* F1, through one sm_name or through two
\* ------------------------------------------------------------------------
set_prefault_info(p, info) ==
    /\ \E env \in RecEnvs : Commit(SetPrefault(FM, p, env), "set_prefault", p)
    /\ fault_attrs' = SetFaultAttrs(fault_attrs, p, info)
    /\ a_call' = [op |-> "set_prefault", id |-> p, info |-> info]
    /\ a_info' = [a_info EXCEPT ![p] = info]
    /\ UNCHANGED <<cfg_vars, cb_vars, sm_vars, obs_vars, d_vars, n_vars, p_vars, c_vars,
                   observe>>

clear_prefault_info(p, info) ==
    /\ \E env \in RecEnvs : Commit(ClearPrefault(FM, p, env), "clear_prefault", p)
    /\ fault_attrs' = ClearFaultAttrs([pf_state EXCEPT ![p] = CLEARED],
                                      fault_attrs, p, info)
    /\ a_call' = [op |-> "clear_prefault", id |-> p, info |-> info]
    /\ a_info' = [a_info EXCEPT ![p] = NoInfo]
    /\ UNCHANGED <<cfg_vars, cb_vars, sm_vars, obs_vars, d_vars, n_vars, p_vars, c_vars,
                   observe>>

InitInfo ==
    /\ recovery_actions = PreFaults
    /\ \/ /\ sm_name = [p \in PreFaults |-> "sm_a"]
          /\ related_prefaults = ReferenceFaults
       \/ /\ sm_name = ReferencePreFaults
          /\ related_prefaults = [f \in Faults |-> IF f = "F1" THEN SmNames ELSE {}]
    /\ notify_interface = TRUE
    /\ recovery_interface = TRUE
    /\ fault_man = TRUE
    /\ debounce_limit = 1
    /\ sample = [p \in PreFaults |-> "unreadable"]
    /\ observe = "off"
    /\ InitCommon
    /\ InitHarnessIdle

NextInfo ==
    \/ \E p \in PreFaults, info \in Infos : set_prefault_info(p, info)
    \/ \E p \in PreFaults, info \in Infos : clear_prefault_info(p, info)

SpecInfo == InitInfo /\ [][NextInfo]_vars

\* ------------------------------------------------------------------------
\* A component calling process_prefault for its PreFaults, sample after
\* sample, each call fed the counter returned by the one before it
\* ------------------------------------------------------------------------

\* the sample speaks against the state the PreFault has settled in
Contrary(state, pr_test) ==
    (pr_test /\ state = CLEARED) \/ (~pr_test /\ state = SET)

\* the status of the notify callback among the calls cb, None without one
NotifiedStatus(cb) ==
    IF \E i \in 1..Len(cb) : cb[i][1] = "notify"
    THEN cb[CHOOSE i \in 1..Len(cb) : cb[i][1] = "notify"][3]
    ELSE None

\* the number of debounce steps made for a PreFault since its counter was at
\* rest, this call included: at rest is the returned counter of a transition
\* (+limit or -limit) and, for a PreFault that is NOT_TESTED, the counter 0.
\* The number is known (not -1) while every step since then moved the counter
\* one further away from its rest value; a call that skips the debounce step
\* leaves it as it is.
StepCost(known, state, pr_test, new_counter) ==
    IF state = NOT_TESTED
    THEN IF new_counter = 0 THEN 0
         ELSE IF known >= 0 /\ Max(new_counter, -new_counter) = known + 1
         THEN known + 1
         ELSE -1
    ELSE IF ~Contrary(state, pr_test) \/ known < 0 THEN known
    ELSE Min(known + 1, MaxRun + 1)

ProcessCall(p, pr_test) ==
    /\ \E env \in RecEnvs :
          LET pp == process_prefault(FM, p, debounce[p], pr_test, debounce_limit, env)
              run == IF Contrary(pf_state[p], pr_test)
                     THEN Min(pp_run[p] + 1, MaxRun) ELSE 0
              cost == StepCost(pp_cost[p], pf_state[p], pr_test, pp.counter)
          IN  /\ Commit(pp.r, "process_prefault", p)
              /\ debounce' = [debounce EXCEPT ![p] = IF pp.r.raised THEN @ ELSE pp.counter]
              /\ force_sm' = [force_sm EXCEPT ![p] = IF pp.r.raised THEN @ ELSE pp.force_sm]
              /\ pp_call' = [id |-> p, test |-> pr_test, state |-> pf_state[p],
                             counter_in |-> debounce[p], returned |-> ~pp.r.raised,
                             counter |-> pp.counter, force_sm |-> pp.force_sm,
                             fm_calls |-> pp.fm_calls,
                             notified |-> NotifiedStatus(pp.r.cb),
                             prev_fm |-> pp_last[p], prev_cb |-> pp_lastcb[p],
                             run |-> run, cost |-> cost]
              /\ pp_cost' = [pp_cost EXCEPT ![p] = IF pp.r.raised THEN -1
                                                     ELSE IF pp.fm_calls # <<>> THEN 0
                                                     ELSE cost]
              /\ pp_last' = IF pp.fm_calls = <<>> THEN pp_last
                            ELSE [pp_last EXCEPT ![p] = pp.fm_calls[Len(pp.fm_calls)]]
              /\ pp_lastcb' = IF NotifiedStatus(pp.r.cb) = None THEN pp_lastcb
                              ELSE [pp_lastcb EXCEPT ![p] = NotifiedStatus(pp.r.cb)]
              /\ pp_run' = [pp_run EXCEPT ![p] = IF pp.r.fm.pf[p] # pf_state[p]
                                                   THEN 0 ELSE run]
    /\ UNCHANGED <<cfg_vars, cb_vars, sm_state, safety_mechanisms, pending, fault_man,
                   debounce_limit, sample, frozen, obs_vars, d_vars, n_vars, a_vars, c_vars,
                   observe>>

InitProcess ==
    /\ recovery_actions = PreFaults
    /\ sm_name \in {[p \in PreFaults |-> "sm_a"], ReferencePreFaults}
    /\ related_prefaults = ReferenceFaults
    /\ notify_interface = TRUE
    /\ recovery_interface = TRUE
    /\ fault_man = TRUE
    /\ debounce_limit \in 1..MaxLimit
    /\ sample = [p \in PreFaults |-> "unreadable"]
    /\ observe = "off"
    /\ InitCommon
    /\ InitHarnessIdle

NextProcess == \E p \in PreFaults, pr_test \in BOOLEAN : ProcessCall(p, pr_test)

SpecProcess == InitProcess /\ [][NextProcess]_vars

\* ------------------------------------------------------------------------
\* The debounce engine on its own: a chain of _debounce calls, each fed the
\* counter returned by the one before it
\* ------------------------------------------------------------------------
DebounceCall(t) ==
    /\ d_calls < MaxCalls
    /\ d_in' = d_out.counter
    /\ d_test' = t
    /\ d_out' = _debounce(d_out.counter, t, d_limit)
    /\ d_calls' = d_calls + 1
    /\ d_chain' = (d_chain /\ (d_calls = 0 \/ d_test = t))
    /\ UNCHANGED <<cfg_vars, fm_vars, cb_vars, sm_vars, op_vars, obs_vars, d_limit,
                   n_vars, a_vars, p_vars, c_vars, observe>>

InitDebounce ==
    /\ recovery_actions = PreFaults
    /\ sm_name = [p \in PreFaults |-> "sm_a"]
    /\ related_prefaults = ReferenceFaults
    /\ notify_interface = FALSE
    /\ recovery_interface = FALSE
    /\ fault_man = FALSE
    /\ debounce_limit = 1
    /\ sample = [p \in PreFaults |-> "unreadable"]
    /\ observe = "ops"
    /\ InitCommon
    /\ d_limit \in 1..MaxDLimit
    /\ d_in \in (-MaxCounter)..MaxCounter
    /\ d_test = FALSE
    /\ d_out = [action |-> NO_ACTION, counter |-> d_in]
    /\ d_calls = 0
    /\ d_chain = (d_in = 0)
    /\ InitNotifyIdle
    /\ InitInfoIdle
    /\ InitProcessIdle
    /\ InitCommitIdle

NextDebounce == \E t \in BOOLEAN : DebounceCall(t)

SpecDebounce == InitDebounce /\ [][NextDebounce]_vars

\* ========================================================================
\* Properties
\* ========================================================================

\* C4: limit calls of _debounce with one test value, starting from counter 0
\* and each fed the counter returned by the call before, return NO_ACTION on
\* the first limit-1 calls and, on the limit-th call, PREFAULT_SET when the
\* test is true and PREFAULT_HEALED when it is false.
DebounceChainFromZero ==
    (d_chain /\ d_calls >= 1 /\ d_calls <= d_limit)
        => d_out.action = IF d_calls < d_limit THEN NO_ACTION
                          ELSE IF d_test THEN PREFAULT_SET ELSE PREFAULT_HEALED

\* a chain of three or more true tests from zero has just reached its limit
DebounceChainFromZeroWitness ==
    d_chain /\ d_limit >= 3 /\ d_calls = d_limit /\ d_test
        /\ d_out.action = PREFAULT_SET

\* C5: for every counter, test and limit, _debounce returns counter+1 capped
\* at limit with PREFAULT_SET iff the cap is reached (test true), or counter-1
\* capped at -limit with PREFAULT_HEALED iff that cap is reached (test
\* false), NO_ACTION otherwise; the call touches nothing but its result.
DebounceFormula ==
    [][d_calls' # d_calls =>
        /\ d_in' = d_out.counter
        /\ d_test' =>
              /\ d_out'.counter = (IF d_in' + 1 < d_limit THEN d_in' + 1 ELSE d_limit)
              /\ d_out'.action = (IF d_out'.counter >= d_limit
                                  THEN PREFAULT_SET ELSE NO_ACTION)
        /\ ~d_test' =>
              /\ d_out'.counter = (IF d_in' - 1 > -d_limit THEN d_in' - 1 ELSE -d_limit)
              /\ d_out'.action = (IF d_out'.counter <= -d_limit
                                  THEN PREFAULT_HEALED ELSE NO_ACTION)
        /\ UNCHANGED <<cfg_vars, fm_vars, cb_vars, sm_vars, d_limit>>]_vars

\* a call that saturated: the counter was already at the limit
DebounceFormulaWitness ==
    d_calls >= 1 /\ d_test /\ d_in >= d_limit /\ d_out.counter = d_limit
        /\ d_out.action = PREFAULT_SET

\* every sm_name is listed by exactly one Fault
ValidCfg ==
    \A s \in SmNames : \E f \in Faults :
        /\ s \in related_prefaults[f]
        /\ \A g \in Faults \ {f} : s \notin related_prefaults[g]

\* C1: under a configuration in which every sm_name is listed by exactly one
\* Fault, after any sequence of set_prefault and clear_prefault calls a Fault
\* is SET if and only if some PreFault whose sm_name the Fault lists is SET.
FaultSetIffRelatedPrefaultSet ==
    ValidCfg =>
        \A f \in Faults :
            fault_state[f] = SET
                <=> \E p \in PreFaults : /\ sm_name[p] \in related_prefaults[f]
                                         /\ pf_state[p] = SET

\* f is the one Fault listing the sm_name shared by the PreFaults p and q, and
\* it lists nothing else
Siblings(p, q, f) ==
    /\ p # q
    /\ sm_name[p] = sm_name[q]
    /\ related_prefaults[f] = {sm_name[p]}
    /\ \A g \in Faults \ {f} : sm_name[p] \notin related_prefaults[g]

\* C2: for a Fault F listing only sm_a and two PreFaults with sm_name sm_a,
\* set_prefault on one makes F SET; clear_prefault on one leaves F SET when
\* the other is SET; and clear_prefault makes F CLEARED exactly when no
\* PreFault with sm_name sm_a is SET after the call (NOT_TESTED does not block).
AggregationOnSharedSm ==
    \A p \in PreFaults, q \in PreFaults, f \in Faults :
        Siblings(p, q, f) =>
            /\ last_op = <<"set_prefault", p>> => fault_state[f] = SET
            /\ (last_op = <<"clear_prefault", p>> /\ pf_state[q] = SET)
                   => fault_state[f] = SET
            /\ last_op = <<"clear_prefault", p>>
                   => (fault_state[f] = CLEARED
                          <=> \A r \in PreFaults :
                                 sm_name[r] = sm_name[p] => pf_state[r] # SET)

\* P1 was just cleared while its sibling P2 is SET, and F1 stayed SET
AggregationOnSharedSmWitness ==
    /\ Siblings("P1", "P2", "F1")
    /\ last_op = <<"clear_prefault", "P1">>
    /\ pf_state["P1"] = CLEARED
    /\ pf_state["P2"] = SET
    /\ fault_state["F1"] = SET

\* C8: a set_prefault call that directly follows a set_prefault call on the
\* same id leaves every PreFault and Fault state as the first call left it,
\* and raises no error.
SetPrefaultTwice ==
    [][(last_op'[1] = "set_prefault" /\ last_op' = last_op /\ repeated')
          => /\ pf_state' = pf_state
             /\ fault_state' = fault_state
             /\ pf_state'[last_op'[2]] = SET
             /\ ~raised']_vars

\* sm_id is listed by no Fault / by exactly one Fault
ListedByNone(sm_id) == \A f \in Faults : sm_id \notin related_prefaults[f]
ListedByOne(sm_id) ==
    \E f \in Faults : /\ sm_id \in related_prefaults[f]
                      /\ \A g \in Faults \ {f} : sm_id \notin related_prefaults[g]

\* C9: found_mapped_fault returns a Fault only when exactly one Fault lists
\* sm_id, and then that Fault; with no Fault listing it, it logs 'No faults
\* associated' and returns None; with several, it logs 'Multiple faults
\* found' and returns None; it never raises and changes no PreFault or Fault
\* state.
FoundMappedFaultCases ==
    [][last_op'[1] = "found_mapped_fault" =>
          LET sm_id == last_op'[2]
          IN  /\ ListedByOne(sm_id)
                    => ret' \in Faults /\ sm_id \in related_prefaults[ret']
              /\ ListedByNone(sm_id)
                    => ret' = None /\ "No faults associated" \in log'
              /\ (~ListedByOne(sm_id) /\ ~ListedByNone(sm_id))
                    => ret' = None /\ "Multiple faults found" \in log'
              /\ ~raised'
              /\ pf_state' = pf_state
              /\ fault_state' = fault_state]_vars

\* the lookup just met an sm_id that two Faults list
FoundMappedFaultCasesWitness ==
    /\ last_op[1] = "found_mapped_fault"
    /\ Cardinality({f \in Faults : last_op[2] \in related_prefaults[f]}) = 2
    /\ ret = None
    /\ log = {"Multiple faults found"}

\* the Fault states after set_prefault(p) / clear_prefault(p) from the
\* current state with both callbacks registered and well behaved
FaultsAfterSet(p) ==
    [f \in Faults |->
        IF ListedByOne(sm_name[p]) /\ sm_name[p] \in related_prefaults[f]
        THEN SET ELSE fault_state[f]]
FaultsAfterClear(p) ==
    [f \in Faults |->
        IF /\ ListedByOne(sm_name[p])
           /\ sm_name[p] \in related_prefaults[f]
           /\ \A q \in PreFaults \ {p} : sm_name[q] = sm_name[p] => pf_state[q] # SET
        THEN CLEARED ELSE fault_state[f]]

NeverBackToNotTested ==
    [][/\ \A p \in PreFaults :
              pf_state[p] # NOT_TESTED => pf_state'[p] # NOT_TESTED
       /\ \A f \in Faults :
              fault_state[f] # NOT_TESTED => fault_state'[f] # NOT_TESTED]_vars

\* states were written by the mechanism and directly, and initialisation
\* ran again afterwards
NeverBackToNotTestedWitness ==
    /\ pf_state["P1"] = CLEARED
    /\ pf_state["P2"] = SET
    /\ \E f \in Faults : fault_state[f] = CLEARED
    /\ sm_state["P1"] = SM_ERROR
    /\ debounce["P1"] = -debounce_limit

\* the Fault mapped to the observed PreFault, and whether another PreFault of
\* the same sm_name is SET
ObservedFault == found_mapped_fault(sm_name[Observed]).ret
SiblingSet ==
    \E q \in PreFaults \ {Observed} :
        sm_name[q] = sm_name[Observed] /\ pf_state[q] = SET

\* C6 as stated: from a freshly initialised mechanism, limit consecutive
\* samples below the threshold drive the PreFault and its Fault to SET, and a
\* following run of limit consecutive samples at or above the threshold
\* drives the PreFault to CLEARED, and the Fault too (no sibling being SET).
LimitSamplesSetThenClear ==
    /\ (fresh /\ run_test /\ run_len >= debounce_limit)
           => pf_state[Observed] = SET /\ fault_state[ObservedFault] = SET
    /\ (after_set_run /\ run_len >= debounce_limit)
           => /\ pf_state[Observed] = CLEARED
              /\ ~SiblingSet => fault_state[ObservedFault] = CLEARED

\* C6: from a freshly initialised mechanism, limit consecutive samples below
\* the threshold drive the PreFault and its Fault to SET; a following run of
\* 2*limit consecutive samples at or above the threshold drives the PreFault
\* to CLEARED, and the Fault to CLEARED exactly when no other PreFault of the
\* same sm_name is SET.
TwiceLimitSamplesClear ==
    /\ (fresh /\ run_test /\ run_len >= debounce_limit)
           => pf_state[Observed] = SET /\ fault_state[ObservedFault] = SET
    /\ (after_set_run /\ run_len >= 2 * debounce_limit)
           => /\ pf_state[Observed] = CLEARED
              /\ fault_state[ObservedFault] = IF SiblingSet THEN SET ELSE CLEARED

\* with limit 2, SET was followed by four samples at or above the threshold
TwiceLimitSamplesClearWitness ==
    /\ debounce_limit >= 2
    /\ after_set_run
    /\ run_len = 2 * debounce_limit
    /\ debounce[Observed] = -debounce_limit
    /\ pf_state[Observed] = CLEARED
    /\ fault_state[ObservedFault] = CLEARED

\* the state the constant reading of p asks for
Implied(p) == IF TestOf(sample[p]) THEN SET ELSE CLEARED

StepsOf(p) == {cb_trace[i] : i \in DOMAIN cb_trace} \cap
    ({<<"rec_fun", p, r>> : r \in RecFunResults}
        \cup {<<"dry_test", p, v>> : v \in {"other", "self", "none"}}
        \cup {<<"dry_verdict", p, v>> : v \in {"fault", "clear"}}
        \cup {<<"conflict_check", p, v>> : v \in {"conflict", "free"}}
        \cup {<<"add_recovery_action", p, f>> : f \in Faults}
        \cup {<<"set_rec_entity", p, "status">>, <<"set_state", p, "changes">>})

\* the steps by which a recovery of p commits
CommitSteps(p) ==
    {<<"add_recovery_action", p, f>> : f \in Faults}
        \cup {<<"set_rec_entity", p, "status">>, <<"set_state", p, "changes">>}

\* C11: when the changes proposed for a PreFault make the test of another
\* enabled mechanism evaluate true, the recovery writes no proposed entity,
\* appends no recovery notification and does not update the status entity
DryRunVeto ==
    \A p \in PreFaults :
        <<"dry_test", p, "other">> \in StepsOf(p) => StepsOf(p) \cap CommitSteps(p) = {}

\* a recovery whose proposed changes trigger another enabled mechanism
DryRunVetoWitness ==
    \E p \in PreFaults :
        /\ <<"dry_test", p, "other">> \in StepsOf(p)
        /\ "Recovery will raise another fault." \in log
        /\ ~rec_commit

\* the Fault a PreFault is mapped to
MappedFault(p) == found_mapped_fault(sm_name[p]).ret

\* the registered actions of p's family whose PreFault maps to a Fault of
\* higher priority than the Fault of p
HigherPriorityRivals(p) ==
    {q \in recovery_actions \ {p} :
        /\ action_name[q] = action_name[p]
        /\ MappedFault(p) # None /\ MappedFault(q) # None
        /\ notification_level[MappedFault(q)] > notification_level[MappedFault(p)]}

\* C12: a recovery that gets to the conflict check while an action of the
\* same family belongs to a PreFault of a higher-priority Fault reports a
\* conflict and writes no proposed entity
PriorityConflictAborts ==
    \A p \in PreFaults :
        (/\ StepsOf(p) \cap {<<"conflict_check", p, v>> : v \in {"conflict", "free"}} # {}
         /\ HigherPriorityRivals(p) # {})
            => /\ <<"conflict_check", p, "conflict">> \in StepsOf(p)
               /\ <<"set_state", p, "changes">> \notin StepsOf(p)

\* C13: a recovery writes the proposed entities exactly when a RecoveryAction
\* is registered for the PreFault, its recovery function handed back a
\* non-empty change map, the dry test reported no fault and the conflict
\* check reported no conflict
RecoveryCommitsIff ==
    \A p \in PreFaults :
        <<"set_state", p, "changes">> \in StepsOf(p)
            <=> /\ \E i \in DOMAIN cb_trace : cb_trace[i] = <<"recovery", p>>
                /\ p \in recovery_actions
                /\ <<"rec_fun", p, "changes">> \in StepsOf(p)
                /\ <<"dry_verdict", p, "clear">> \in StepsOf(p)
                /\ <<"conflict_check", p, "free">> \in StepsOf(p)

\* a recovery that passed both checks and wrote the proposed entities
RecoveryCommitsIffWitness ==
    \E p \in PreFaults :
        /\ <<"set_state", p, "changes">> \in StepsOf(p)
        /\ <<"dry_verdict", p, "clear">> \in StepsOf(p)
        /\ sm_state[p] = SM_ENABLED
        /\ rec_commit

\* C14: a recovery whose recovery function hands back None ends without an
\* exception, runs neither check, writes no entity and sends no notification
RecFunNoneCompletes ==
    \A p \in PreFaults :
        <<"rec_fun", p, "None">> \in StepsOf(p)
            => /\ ~raised
               /\ StepsOf(p) = {<<"rec_fun", p, "None">>}

\* the recovery callback was called for p by the last operation
RecoveryCalled(p) == \E i \in DOMAIN cb_trace : cb_trace[i] = <<"recovery", p>>

\* C15: the recovery of a PreFault without a RecoveryAction calls no recovery
\* function, writes no entity, sends no notification and raises nothing, and
\* the registries hold exactly what set_prefault or clear_prefault wrote
\* before the callback
UnregisteredRecoveryNoOp ==
    [][\A p \in PreFaults \ recovery_actions :
          /\ RecoveryCalled(p)' =>
                /\ StepsOf(p)' = {}
                /\ "No recovery actions" \in log'
                /\ (\A q \in PreFaults \ {p} : StepsOf(q)' = {})
                       => ~raised' /\ ~rec_commit'
          /\ last_op' = <<"set_prefault", p>> =>
                /\ RecoveryCalled(p)'
                /\ pf_state' = [pf_state EXCEPT ![p] = SET]
                /\ fault_state' = [fault_state EXCEPT ![MappedFault(p)] = SET]
          /\ last_op' = <<"clear_prefault", p>> =>
                /\ RecoveryCalled(p)'
                /\ pf_state' = [pf_state EXCEPT ![p] = CLEARED]
                /\ fault_state' = [fault_state EXCEPT ![MappedFault(p)] = CLEARED]
      ]_vars

\* the recovery callback ran for a PreFault that has no RecoveryAction
UnregisteredRecoveryNoOpWitness ==
    \E p \in PreFaults \ recovery_actions :
        /\ RecoveryCalled(p)
        /\ "No recovery actions" \in log
        /\ pf_state[p] = SET

\* C16: a recovery called for a PreFault that is CLEARED does not call the
\* recovery function and writes no proposed entity
ClearedRecoverySkipsFunction ==
    \A p \in PreFaults :
        RecoveryCalled(p) /\ pf_state[p] = CLEARED
            => /\ StepsOf(p) \cap {<<"rec_fun", p, r>> : r \in RecFunResults} = {}
               /\ <<"set_state", p, "changes">> \notin StepsOf(p)

\* ------------------------------------------------------------------------
\* Lifecycle of the mechanisms (SpecLife)
\* ------------------------------------------------------------------------

EnabledAndInvokedOnce(p) ==
    /\ sm_state[p] = SM_DISABLED =>
          IF p \in safety_mechanisms
          THEN sm_state'[p] = SM_ENABLED /\ sm_calls'[p] = 1
          ELSE sm_state'[p] = SM_ERROR /\ sm_calls'[p] = 0
    /\ sm_state[p] # SM_DISABLED =>
          sm_state'[p] = sm_state[p] /\ sm_calls'[p] = 0

InitCalls(p) ==
    {i \in DOMAIN cb_trace' :
        cb_trace'[i] \in {<<"init_safety_mechanism", p, kind>> : kind \in CfgKinds}}

\* C19: init_safety_mechanisms calls the component once for every PreFault,
\* leaves a PreFault DISABLED when the call succeeded (the mechanism was
\* stored) and in ERROR when it failed, and changes no PreFault or Fault state
InitCallsEachOnce ==
    [][last_op' = <<"init_safety_mechanisms", None>>
          => /\ \A p \in PreFaults :
                   /\ Cardinality(InitCalls(p)) = 1
                   /\ sm_state'[p] =
                          IF p \in safety_mechanisms' \ safety_mechanisms
                          THEN SM_DISABLED ELSE SM_ERROR
             /\ pf_state' = pf_state
             /\ fault_state' = fault_state
      ]_vars

\* the configuration of p met by the operation that ends in the primed state
\* is invalid: a key is missing, the sm_name is unknown, or the name is
\* already registered
InvalidCfg(p) ==
    \/ p \in safety_mechanisms
    \/ \E i \in InitCalls(p) : cb_trace'[i][3] \in {"missing_key", "unknown_sm"}

\* C20: init_safety_mechanisms raises nothing and leaves exactly the
\* invalidly configured PreFaults in ERROR and the others DISABLED, and
\* enable_all_prefaults then takes every DISABLED PreFault to ENABLED
ConfigErrorIsolated ==
    [][/\ last_op' = <<"init_safety_mechanisms", None>>
          => /\ ~raised'
             /\ \A p \in PreFaults :
                   sm_state'[p] = IF InvalidCfg(p) THEN SM_ERROR ELSE SM_DISABLED
       /\ (last_op' = <<"enable_all_prefaults", None>> /\ ~raised')
          => \A p \in PreFaults :
                 sm_state[p] = SM_DISABLED => sm_state'[p] = SM_ENABLED
      ]_vars

\* the last operation of the primed state invoked mechanism p on its own
Invoked(p) == last_op' \in {<<"entity_change", p>>, <<"repoll", p>>}

EntityText(state) ==
    CASE state = NOT_TESTED -> "Not_tested"
      [] state = SET -> "Set"
      [] state = CLEARED -> "Cleared"

\* C22: in every state after initialization the host entity of each Fault
\* shows the text of that Fault's state
EntityMirrorsFault ==
    \A f \in Faults : fault_entity[f] = EntityText(fault_state[f])

\* one Fault has been set and cleared again while the other one is set
EntityMirrorsFaultWitness ==
    \E f, g \in Faults :
        /\ fault_state[f] = CLEARED /\ fault_entity[f] = "Cleared"
        /\ fault_state[g] = SET /\ fault_entity[g] = "Set"

\* C23: a tag is registered in active_notification exactly when the most
\* recent notify of level 1, 2 or 3 for that tag carried SET; a CLEARED
\* notify removes the tag, and for a tag that is not registered it changes
\* nothing
ActiveNotificationTracksLastStatus ==
    \A f \in Faults : (f \in active_notification) <=> (n_last[f] = SET)

\* a CLEARED notify arrived for a tag that was not registered while the other
\* tag stays registered
ActiveNotificationTracksLastStatusWitness ==
    /\ n_call.status = CLEARED
    /\ n_call.level \in {1, 2, 3}
    /\ n_call.fault \notin n_call.before
    /\ n_call.before # {}
    /\ active_notification = n_call.before

\* C24: a notify of level 4 calls no notify service and no light or alarm
\* service and leaves active_notification as it was
Level4Silent ==
    [][n_call'.level = 4
          => /\ n_call'.services = <<>>
             /\ active_notification' = active_notification]_vars

\* a level 4 notify carried CLEARED for a Fault whose tag is registered, and
\* the tag stayed in place
Level4SilentWitness ==
    /\ n_call.level = 4
    /\ n_call.status = CLEARED
    /\ n_call.fault \in active_notification

\* C25: when two PreFaults of one Fault were set with different values under
\* one key and the entity's attribute lists both, clear_prefault of one of
\* them while the other is still SET takes only the cleared PreFault's value
\* out of the attribute and keeps the other's
IndividualRetraction ==
    [][\A p \in PreFaults, q \in PreFaults, key \in InfoKeys :
          (/\ p # q
           /\ MappedFault(p) # None
           /\ MappedFault(q) = MappedFault(p)
           /\ pf_state[p] = SET
           /\ pf_state[q] = SET
           /\ key \in DOMAIN a_info[p]
           /\ key \in DOMAIN a_info[q]
           /\ a_info[p][key] # a_info[q][key]
           /\ {a_info[p][key], a_info[q][key]}
                  \subseteq Parts(fault_attrs[MappedFault(p)][key])
           /\ a_call' = [op |-> "clear_prefault", id |-> p, info |-> a_info[p]])
              => /\ a_info[p][key] \notin Parts(fault_attrs'[MappedFault(p)][key])
                 /\ a_info[q][key] \in Parts(fault_attrs'[MappedFault(p)][key])
      ]_vars

\* C26: set_prefault(id, info) followed by a clear_prefault(id, info) that
\* clears the Fault leaves entity attributes from which every value of info
\* is gone from the list of its key, the other values of that key and the
\* other keys being as before
AttributeRoundTrip ==
    [][\A p \in PreFaults, info \in Infos :
          (/\ a_call = [op |-> "set_prefault", id |-> p, info |-> info]
           /\ a_call' = [op |-> "clear_prefault", id |-> p, info |-> info]
           /\ MappedFault(p) # None
           /\ fault_state[MappedFault(p)] = SET
           /\ fault_state'[MappedFault(p)] = CLEARED)
              => \A key \in AttrKeys :
                    IF key \in DOMAIN info
                    THEN Parts(fault_attrs'[MappedFault(p)][key])
                             = Parts(fault_attrs[MappedFault(p)][key]) \ {info[key]}
                    ELSE fault_attrs'[MappedFault(p)][key]
                             = fault_attrs[MappedFault(p)][key]
      ]_vars

\* the PreFault state the call found already agrees with its sample
Agrees(c) == (c.test /\ c.state = SET) \/ (~c.test /\ c.state = CLEARED)

\* C27: while the PreFault state agrees with the sample, process_prefault
\* returns the counter it was given and force_sm False, calls neither
\* set_prefault nor clear_prefault and changes nothing; the debounce step
\* runs only for a PreFault that is NOT_TESTED or whose state the sample
\* contradicts
AgreeingSampleNoOp ==
    [][(pp_call'.id # None /\ Agrees(pp_call'))
          => /\ pp_call'.returned
             /\ pp_call'.counter = pp_call'.counter_in
             /\ ~pp_call'.force_sm
             /\ pp_call'.fm_calls = <<>>
             /\ debounce' = debounce
             /\ pf_state' = pf_state
             /\ fault_state' = fault_state
             /\ active_notification' = active_notification
      ]_vars

\* a sample below the threshold met a PreFault that is SET while its counter
\* had left the limit, and the counter was handed back as it was
AgreeingSampleNoOpWitness ==
    /\ pp_call.id # None
    /\ pp_call.test
    /\ pp_call.state = SET
    /\ pp_call.counter_in < debounce_limit
    /\ pp_call.counter = pp_call.counter_in
    /\ ~pp_call.force_sm

\* C28: when process_prefault runs the debounce step it returns the counter
\* of _debounce; on PREFAULT_SET it calls set_prefault once and returns
\* force_sm False, on PREFAULT_HEALED it calls clear_prefault once and
\* returns force_sm False, on NO_ACTION it calls neither and returns force_sm
\* True
DebounceStepOutcome ==
    [][(pp_call'.id # None /\ ~Agrees(pp_call'))
          => LET debounce_result ==
                     _debounce(pp_call'.counter_in, pp_call'.test, debounce_limit)
             IN  /\ pp_call'.returned
                 /\ pp_call'.counter = debounce_result.counter
                 /\ debounce_result.action = PREFAULT_SET
                        => /\ pp_call'.fm_calls = <<"set_prefault">>
                           /\ ~pp_call'.force_sm
                 /\ debounce_result.action = PREFAULT_HEALED
                        => /\ pp_call'.fm_calls = <<"clear_prefault">>
                           /\ ~pp_call'.force_sm
                 /\ debounce_result.action = NO_ACTION
                        => /\ pp_call'.fm_calls = <<>>
                           /\ pp_call'.force_sm
      ]_vars

\* the PreFault of the call is the only one on its sm_name
AloneOnSmName(p) == \A q \in PreFaults \ {p} : sm_name[q] # sm_name[p]

\* C29 as stated: process_prefault calls set_prefault only for a PreFault
\* that is not SET and clear_prefault only for one that is not CLEARED, so
\* for one PreFault its set and clear calls, and the notify callbacks they
\* cause, strictly alternate
EdgeTriggeredCallsAndCallbacks ==
    [][(pp_call'.id # None /\ pp_call'.fm_calls # <<>>)
          => /\ Len(pp_call'.fm_calls) = 1
             /\ pp_call'.fm_calls[1] = "set_prefault" => pp_call'.state # SET
             /\ pp_call'.fm_calls[1] = "clear_prefault" => pp_call'.state # CLEARED
             /\ pp_call'.fm_calls[1] # pp_call'.prev_fm
             /\ pp_call'.notified # None => pp_call'.notified # pp_call'.prev_cb
      ]_vars

\* C29: the set and clear calls of one PreFault strictly alternate; the
\* notify callbacks they cause alternate for a PreFault that is alone on its
\* sm_name
EdgeTriggeredCalls ==
    [][(pp_call'.id # None /\ pp_call'.fm_calls # <<>>)
          => /\ Len(pp_call'.fm_calls) = 1
             /\ pp_call'.fm_calls[1] = "set_prefault" => pp_call'.state # SET
             /\ pp_call'.fm_calls[1] = "clear_prefault" => pp_call'.state # CLEARED
             /\ pp_call'.fm_calls[1] # pp_call'.prev_fm
             /\ (AloneOnSmName(pp_call'.id) /\ pp_call'.notified # None)
                    => pp_call'.notified # pp_call'.prev_cb
      ]_vars

\* a PreFault that shares its sm_name was set again after a clear that caused
\* no callback, and the SET notification was repeated
EdgeTriggeredCallsWitness ==
    /\ pp_call.id # None
    /\ pp_call.fm_calls = <<"set_prefault">>
    /\ pp_call.prev_fm = "clear_prefault"
    /\ pp_call.notified = SET
    /\ pp_call.prev_cb = SET

\* C30: with a limit of two or more a PreFault that is SET or CLEARED changes
\* its state only on a sample that ends an uninterrupted run of samples
\* contradicting that state, never on a contrary sample that follows an
\* agreeing one
FlipNeedsUninterruptedRun ==
    [][(/\ pp_call'.id # None
        /\ debounce_limit >= 2
        /\ pp_call'.state \in {SET, CLEARED}
        /\ pf_state'[pp_call'.id] # pp_call'.state)
          => pp_call'.run >= 2
      ]_vars

\* C31: a PreFault that became SET through process_prefault calls
\* clear_prefault on exactly the 2*limit-th test processed after that, and a
\* PreFault that became CLEARED calls set_prefault on exactly the 2*limit-th;
\* only a transition out of NOT_TESTED from counter 0 takes limit tests
ReversalCost ==
    [][(/\ pp_call'.id # None
        /\ pp_call'.fm_calls # <<>>
        /\ pp_call'.cost >= 0)
          => pp_call'.cost = (IF pp_call'.state = NOT_TESTED
                              THEN debounce_limit ELSE 2 * debounce_limit)
      ]_vars

\* a PreFault set through process_prefault was cleared by the 2*limit-th
\* negative test, under the largest limit
ReversalCostWitness ==
    /\ pp_call.id # None
    /\ debounce_limit = MaxLimit
    /\ pp_call.state = SET
    /\ pp_call.prev_fm = "set_prefault"
    /\ pp_call.fm_calls = <<"clear_prefault">>
    /\ pp_call.cost = 2 * debounce_limit

\* C32: a re-poll that fires for an enabled mechanism whose PreFault already
\* has the state the current sensor reading implies changes no PreFault
\* state, no Fault state and no debounce counter, calls neither notify nor
\* recovery and asks for no further re-poll
StaleRepollHarmless ==
    [][\A p \in PreFaults :
          (/\ last_op' = <<"repoll", p>>
           /\ pending[p]
           /\ sm_state[p] = SM_ENABLED
           /\ sample[p] \in Readable
           /\ ~Contrary(pf_state[p], TestOf(sample[p]))
           /\ pf_state[p] # NOT_TESTED)
              => /\ pf_state' = pf_state
                 /\ fault_state' = fault_state
                 /\ fault_entity' = fault_entity
                 /\ debounce' = debounce
                 /\ cb_trace' = <<>>
                 /\ ~raised'
                 /\ ~pending'[p]
      ]_vars

\* a re-poll left over from a pending debounce fired after an entity change
\* had already set the PreFault
StaleRepollHarmlessWitness ==
    \E p \in PreFaults :
        /\ last_op = <<"repoll", p>>
        /\ sm_state[p] = SM_ENABLED
        /\ pf_state[p] = SET
        /\ sample[p] \in Readable
        /\ TestOf(sample[p])
        /\ sm_calls[p] = 1
        /\ cb_trace = <<>>
        /\ ~pending[p]

\* C33: when no Fault or more than one Fault lists the sm_name of a PreFault,
\* set_prefault and clear_prefault write the PreFault's own state and
\* nothing else: no Fault state, no fault entity, no notify and no recovery
UnmappedPreFaultOnlyOwnState ==
    [][\A p \in PreFaults :
          (/\ last_op' \in {<<"set_prefault", p>>, <<"clear_prefault", p>>}
           /\ MappedFault(p) = None)
              => /\ pf_state' = [pf_state EXCEPT
                                    ![p] = IF last_op'[1] = "set_prefault"
                                           THEN SET ELSE CLEARED]
                 /\ fault_state' = fault_state
                 /\ fault_entity' = fault_entity
                 /\ active_notification' = active_notification
                 /\ cb_trace' = <<>>
                 /\ ~raised'
                 /\ ~rec_commit'
      ]_vars

\* set_prefault was called with both callbacks registered for a PreFault
\* whose sm_name two Faults list
UnmappedPreFaultOnlyOwnStateWitness ==
    \E p \in PreFaults :
        /\ last_op = <<"set_prefault", p>>
        /\ Cardinality({f \in Faults : sm_name[p] \in related_prefaults[f]}) = 2
        /\ notify_interface
        /\ recovery_interface
        /\ pf_state[p] = SET
        /\ "Multiple faults found" \in log

\* the operation recorded in the primed state is a set_prefault of p, or a
\* clear_prefault of p that cleared its Fault, with the given status
Transition(p, fault_status) ==
    /\ MappedFault(p) # None
    /\ \/ fault_status = SET /\ last_op' = <<"set_prefault", p>>
       \/ /\ fault_status = CLEARED
          /\ last_op' = <<"clear_prefault", p>>
          /\ cb_trace' # <<>>

\* C34: within one set_prefault, and one clear_prefault that clears the
\* Fault, the Fault state and the fault entity are written first, then notify
\* is called, then recovery; the notification of the Fault is therefore in
\* the active registry when a recovery started by set_prefault appends its
\* message
SideEffectOrder ==
    [][\A p \in PreFaults, fault_status \in {SET, CLEARED} :
          Transition(p, fault_status)
              => /\ fault_state'[MappedFault(p)] = fault_status
                 /\ fault_entity'[MappedFault(p)] = EntityText(fault_status)
                 /\ Len(cb_trace') >= 2
                 /\ cb_trace'[1] = <<"notify", MappedFault(p), fault_status>>
                 /\ cb_trace'[2] = <<"recovery", p>>
                 /\ (MappedFault(p) \in active_notification') <=> (fault_status = SET)
                 /\ \A i \in 1..Len(cb_trace') :
                        cb_trace'[i][1] = "add_recovery_action"
                            => /\ i > 2
                               /\ fault_status = SET
                                      => MappedFault(p) \in active_notification'
      ]_vars

\* a set_prefault whose recovery appended a manual-action message to the
\* notification registered by the notify call before it
SideEffectOrderWitness ==
    \E p \in PreFaults :
        /\ last_op = <<"set_prefault", p>>
        /\ MappedFault(p) \in active_notification
        /\ Len(cb_trace) > 2
        /\ cb_trace[1][1] = "notify"
        /\ \E i \in 3..Len(cb_trace) :
               cb_trace[i] = <<"add_recovery_action", p, MappedFault(p)>>

\* C35: _add_recovery_action(msg, fault_name) appends msg to the message of
\* the active notification tagged fault_name and sends that notification
\* once; without an active notification for fault_name it sends nothing; in
\* both cases the other notifications and active_notification stay as they
\* were
AddRecoveryActionFrame ==
    [][n_call'.status = "add_recovery_action"
          => /\ active_notification' = active_notification
             /\ \A f \in Faults \ {n_call'.fault} : n_message'[f] = n_message[f]
             /\ IF n_call'.fault \in active_notification
                THEN /\ n_message'[n_call'.fault]
                            = Append(n_message[n_call'.fault], n_call'.msg)
                     /\ n_call'.services = <<"notify/notify">>
                ELSE /\ n_message' = n_message
                     /\ n_call'.services = <<>>
      ]_vars

\* a second recovery message was appended to the notification of one Fault
\* while the other Fault's notification is active as well
AddRecoveryActionFrameWitness ==
    /\ n_call.status = "add_recovery_action"
    /\ active_notification = Faults
    /\ Len(n_message[n_call.fault]) = 2
    /\ n_call.services = <<"notify/notify">>

\* C36: the dry run vetoes a recovery only on an enabled mechanism other than
\* the one of the PreFault being recovered: that PreFault's own mechanism
\* answering true under the proposed changes does not veto
DryRunOthersOnly ==
    \A p \in PreFaults :
        <<"dry_verdict", p, "fault">> \in StepsOf(p)
            => <<"dry_test", p, "other">> \in StepsOf(p)

Entities == {"light", "window"}
\* the host entity that carries the status of a RecoveryAction
StatusEntity == "sensor.recovery"

\* entities_changes: a dict, walked in insertion order, no key twice
ChangeMaps ==
    {s \in UNION {[1..n -> Entities] : n \in 0..Cardinality(Entities)} :
        \A i, j \in DOMAIN s : i # j => s[i] # s[j]}

\* what the error log says about a set_state that raised
SetStateError ==
    [e \in Entities |->
        IF e = "light" THEN "Exception during setting light"
        ELSE "Exception during setting window"]

\* the loop over entities_changes giving up at the first set_state that raises
SetEntitiesAborts(changes, failing) ==
    LET bad == {i \in DOMAIN changes : changes[i] \in failing}
        last == IF bad = {} THEN Len(changes)
                ELSE CHOOSE i \in bad : \A j \in bad : i <= j
    IN  [steps |-> [i \in 1..last |->
                      <<"set_state", changes[i],
                        IF changes[i] \in failing THEN "failed" ELSE "written">>],
         log |-> {},
         raised |-> bad # {}]

\* the loop over entities_changes of _perform_recovery: each set_state in a
\* try of its own, a failure logged as an error
set_entities(changes, failing) ==
    [steps |-> [i \in DOMAIN changes |->
                  <<"set_state", changes[i],
                    IF changes[i] \in failing THEN "failed" ELSE "written">>],
     log |-> {SetStateError[changes[i]] : i \in {j \in DOMAIN changes : changes[j] \in failing}},
     raised |-> FALSE]

\* RecoveryManager._perform_recovery(prefault, notifications, entities_changes)
\* on a host whose set_state raises for the entities in failing
perform_recovery_entities(p, notes, changes, failing) ==
    LET fault == found_mapped_fault(sm_name[p]).ret
        noted == IF notes /\ fault # None
                 THEN <<(<<"add_recovery_action", p, fault>>)>> ELSE <<>>
    IN  IF p \in recovery_actions
        THEN IF StatusEntity \in failing
             \* _set_rec_entity writes outside the try
             THEN [steps |-> noted \o <<(<<"set_rec_entity", p, "failed">>)>>,
                   log |-> {}, raised |-> TRUE]
             ELSE LET loop == set_entities(changes, failing)
                  IN  [steps |-> noted \o <<(<<"set_rec_entity", p, "status">>)>>
                                     \o loop.steps,
                       log |-> loop.log, raised |-> loop.raised]
        ELSE [steps |-> noted, log |-> {"Recovery action was not found"},
              raised |-> FALSE]

\* recovery() reaches _perform_recovery for p with the changes its recovery
\* function proposed
PerformRecoveryCall(p, notes, changes, failing) ==
    /\ LET r == perform_recovery_entities(p, notes, changes, failing)
       IN  c_call' = [id |-> p, notes |-> notes, changes |-> changes,
                      failing |-> failing, steps |-> r.steps, log |-> r.log,
                      raised |-> r.raised]
    /\ UNCHANGED <<cfg_vars, fm_vars, cb_vars, sm_vars, op_vars, obs_vars, d_vars,
                   n_vars, a_vars, p_vars, observe>>

InitCommit ==
    /\ recovery_actions \in SUBSET PreFaults
    /\ sm_name = ReferencePreFaults
    /\ observe = "off"
    /\ InitWired
    /\ debounce_limit = 1
    /\ sample = [p \in PreFaults |-> "unreadable"]

NextCommit ==
    \E p \in PreFaults, notes \in BOOLEAN, changes \in ChangeMaps,
       failing \in SUBSET (Entities \cup {StatusEntity}) :
        PerformRecoveryCall(p, notes, changes, failing)

SpecCommit == InitCommit /\ [][NextCommit]_vars

\* the set_state steps of the last _perform_recovery call, in order
BatchSteps ==
    SelectSeq(c_call.steps, LAMBDA step : step[1] = "set_state")

\* C38: when _perform_recovery applies a batch of entity changes and the
\* host's set_state fails for entities of the batch, each failure is logged
\* and set_state is still attempted for every entity of the batch, in order,
\* and no exception leaves the call
BestEffortCommit ==
    /\ c_call.id \in recovery_actions
    /\ StatusEntity \notin c_call.failing
    => /\ ~c_call.raised
       /\ Len(BatchSteps) = Len(c_call.changes)
       /\ \A i \in DOMAIN c_call.changes :
              /\ BatchSteps[i][2] = c_call.changes[i]
              /\ (BatchSteps[i][3] = "failed") <=> (c_call.changes[i] \in c_call.failing)
              /\ c_call.changes[i] \in c_call.failing
                     => SetStateError[c_call.changes[i]] \in c_call.log

\* a batch of two whose first entity failed and whose second was written
BestEffortCommitWitness ==
    /\ c_call.id \in recovery_actions
    /\ Len(c_call.changes) = 2
    /\ ~c_call.raised
    /\ Len(BatchSteps) = 2
    /\ BatchSteps[1][3] = "failed"
    /\ BatchSteps[2][3] = "written"

\* C39: set_prefault with additional_info merges it into the attributes of
\* the fault entity key by key: a key of additional_info whose current value
\* is missing or "None" is overwritten with the new value; otherwise the new
\* value is appended to the list unless it is already a member, so that it
\* is listed once; keys not in additional_info keep their value
AttributeMergeOnSet ==
    [][\A p \in PreFaults :
          /\ a_call'.op = "set_prefault"
          /\ a_call'.id = p
          /\ MappedFault(p) # None
          => LET info == a_call'.info
                 old == fault_attrs[MappedFault(p)]
                 new == fault_attrs'[MappedFault(p)]
             IN  \A key \in AttrKeys :
                     IF key \notin DOMAIN info THEN new[key] = old[key]
                     ELSE /\ Cardinality({i \in DOMAIN new[key] :
                                             new[key][i] = info[key]}) = 1
                          /\ IF old[key] \in {<<>>, <<"None">>}
                             THEN new[key] = <<info[key]>>
                             ELSE IF info[key] \in Parts(old[key])
                             THEN new[key] = old[key]
                             ELSE new[key] = Append(old[key], info[key])
      ]_vars

\* both PreFaults of a Fault were set with the same detail, which the fault
\* entity lists once, and with different locations, which it lists both
AttributeMergeOnSetWitness ==
    /\ a_call.op = "set_prefault"
    /\ \A p \in PreFaults :
           /\ MappedFault(p) = "F1"
           /\ DOMAIN a_info[p] = InfoKeys
    /\ a_info["P1"]["detail"] = a_info["P2"]["detail"]
    /\ a_info["P1"]["location"] # a_info["P2"]["location"]
    /\ Len(fault_attrs["F1"]["detail"]) = 1
    /\ Len(fault_attrs["F1"]["location"]) = 2
    /\ fault_attrs["F1"]["friendly_name"] = <<"name">>

\* ------------------------------------------------------------------------
\* process_prefault on a component before and after register_fm
\* (SpecRegister)
\* ------------------------------------------------------------------------

\* SafetyComponent.register_fm(fm)
register_fm ==
    /\ ~fault_man
    /\ fault_man' = TRUE
    /\ UNCHANGED <<cfg_vars, fm_vars, cb_vars, sm_state, safety_mechanisms, debounce,
                   force_sm, pending, debounce_limit, sample, frozen, op_vars, obs_vars,
                   h_vars, observe>>

\* the component as constructed: no fault manager yet
InitRegister ==
    /\ recovery_actions = PreFaults
    /\ sm_name = ReferencePreFaults
    /\ related_prefaults = ReferenceFaults
    /\ notify_interface = TRUE
    /\ recovery_interface = TRUE
    /\ fault_man = FALSE
    /\ debounce_limit \in 1..MaxLimit
    /\ sample = [p \in PreFaults |-> "unreadable"]
    /\ observe = "off"
    /\ InitCommon
    /\ InitHarnessIdle

NextRegister ==
    \/ \E p \in PreFaults, pr_test \in BOOLEAN : ProcessCall(p, pr_test)
    \/ register_fm

SpecRegister == InitRegister /\ [][NextRegister]_vars

\* C40: on a component without a registered fault manager, process_prefault
\* returns the counter it was given and force_sm False, without a debounce
\* step, a FaultManager call, a callback, a state change or an error
UnregisteredIsInert ==
    [][~fault_man /\ ~fault_man'
          => /\ pp_call'.returned
             /\ pp_call'.counter = pp_call'.counter_in
             /\ pp_call'.counter_in = debounce[pp_call'.id]
             /\ ~pp_call'.force_sm
             /\ pp_call'.fm_calls = <<>>
             /\ pp_call'.notified = None
             /\ debounce' = debounce
             /\ force_sm' = force_sm
             /\ fm_vars' = fm_vars
             /\ sm_state' = sm_state
      ]_vars

\* process_prefault was called with a test result that a registered
\* component would have debounced, and gave the counter back
UnregisteredIsInertWitness ==
    /\ ~fault_man
    /\ pp_call.id \in PreFaults
    /\ pp_call.test
    /\ pp_call.state = NOT_TESTED
    /\ pp_call.returned
    /\ pp_call.counter = pp_call.counter_in
    /\ ~pp_call.force_sm
====
